---- MODULE Spec2Model ----
(***************************************************************************)
(* Priority configuration resolver of the flexible MCP starter             *)
(* (config/types.ts, config/resolver.ts, config/defaults.ts).              *)
(*                                                                         *)
(* JavaScript strings are sequences of one-character strings, so that the  *)
(* key normalizers, the value coercion and the JSON reader work on the     *)
(* characters as the code does.  JavaScript values are tagged records      *)
(* [t |-> tag, v |-> payload].  A configuration object is a function from  *)
(* its own property names (character sequences) to values.                 *)
(***************************************************************************)
EXTENDS Integers, Sequences, FiniteSets, TLC

VARIABLES headers, env, input, called, args, ret, console,
          toolRegistry, before, filterLog, evaluated, calls, server,
          moduleDefaults, client

vars == <<headers, env, input, called, args, ret, console,
          toolRegistry, before, filterLog, evaluated, calls, server,
          moduleDefaults, client>>

(***************************************************************************)
(* Bounds of the model                                                     *)
(***************************************************************************)
\* the largest number of headers in one request
MaxHeaders == 2
\* the largest number of variables in the worker environment
MaxEnvVars == 2
\* the longest enumerated argument of tryParseValue
MaxValueLen == 3
\* the number of registry calls in a run
MaxCalls == 3
\* the number of registrations before the one filter call of a filter run
MaxTools == 2
\* the largest retry count of a client or of a request
MaxRetries == 2

(***************************************************************************)
(* Characters                                                              *)
(***************************************************************************)
LowerLetters ==
  <<"a","b","c","d","e","f","g","h","i","j","k","l","m",
    "n","o","p","q","r","s","t","u","v","w","x","y","z">>

UpperLetters ==
  <<"A","B","C","D","E","F","G","H","I","J","K","L","M",
    "N","O","P","Q","R","S","T","U","V","W","X","Y","Z">>

DigitChars == <<"0","1","2","3","4","5","6","7","8","9">>

Range(f) == { f[i] : i \in DOMAIN f }

IsLower(c) == c \in Range(LowerLetters)
IsUpper(c) == c \in Range(UpperLetters)
IsDigit(c) == c \in Range(DigitChars)

IndexIn(f, c) == CHOOSE i \in DOMAIN f : f[i] = c

\* String.prototype.toUpperCase / toLowerCase, one character
CharToUpper(c) == IF IsLower(c) THEN UpperLetters[IndexIn(LowerLetters, c)] ELSE c
CharToLower(c) == IF IsUpper(c) THEN LowerLetters[IndexIn(UpperLetters, c)] ELSE c

toUpperCase(s) == [i \in 1..Len(s) |-> CharToUpper(s[i])]
toLowerCase(s) == [i \in 1..Len(s) |-> CharToLower(s[i])]

DigitVal(c) == IndexIn(DigitChars, c) - 1

\* the character at position i, "" past the end of the string
At(s, i) == IF i >= 1 /\ i <= Len(s) THEN s[i] ELSE ""

startsWith(s, c) == At(s, 1) = c

(***************************************************************************)
(* JavaScript values                                                       *)
(***************************************************************************)
Undefined == [t |-> "undefined", v |-> <<>>]
Null      == [t |-> "null", v |-> <<>>]
Str(s)    == [t |-> "string", v |-> s]
Bool(b)   == [t |-> "boolean", v |-> <<b>>]
\* a number: sign, integer part, fraction digits without trailing zeros
Num(sgn, n, frac) ==
  [t |-> "number", v |-> <<IF n = 0 /\ frac = <<>> THEN 1 ELSE sgn, n, frac>>]
Arr(items) == [t |-> "array", v |-> items]
\* an object literal: its members <<name, value>> in insertion order
Obj(members) == [t |-> "object", v |-> members]

\* Array.isArray
IsArray(x) == x.t = "array"

\* ToBoolean: the values an `x && ...` test lets through
Truthy(x) ==
  CASE x.t = "undefined" -> FALSE
    [] x.t = "null"      -> FALSE
    [] x.t = "boolean"   -> x.v[1]
    [] x.t = "number"    -> ~(x.v[2] = 0 /\ x.v[3] = <<>>)
    [] x.t = "string"    -> x.v # <<>>
    [] OTHER             -> TRUE

\* property read obj[key] on a configuration object
Get(obj, key) == IF key \in DOMAIN obj THEN obj[key] ELSE Undefined

\* property write obj[key] = value
Put(obj, key, value) ==
  [k \in (DOMAIN obj) \cup {key} |-> IF k = key THEN value ELSE obj[k]]

EmptyObject == [k \in {} |-> Undefined]

(***************************************************************************)
(* Key normalizer                                                          *)
(***************************************************************************)
RECURSIVE ReplaceSepLetter(_, _, _)
\* str.replace(/<sep>([a-z])/g, (_, letter) => letter.toUpperCase()), from i
ReplaceSepLetter(s, sep, i) ==
  IF i > Len(s) THEN <<>>
  ELSE IF s[i] = sep /\ IsLower(At(s, i + 1))
       THEN <<CharToUpper(s[i + 1])>> \o ReplaceSepLetter(s, sep, i + 2)
       ELSE <<s[i]>> \o ReplaceSepLetter(s, sep, i + 1)

kebabToCamelCase(str) == ReplaceSepLetter(str, "-", 1)

upperCaseToCamelCase(str) == ReplaceSepLetter(toLowerCase(str), "_", 1)

(***************************************************************************)
(* JSON.parse, for the JSON texts without escapes and exponents: literals, *)
(* numbers, strings, arrays and objects, with blanks between the tokens.   *)
(* A result is [ok, val, next]: ok = FALSE stands for the SyntaxError.     *)
(***************************************************************************)
ParseFail == [ok |-> FALSE, val |-> Undefined, next |-> 0]
ParseOk(val, next) == [ok |-> TRUE, val |-> val, next |-> next]

IsWs(c) == c = " "

RECURSIVE SkipWs(_, _)
SkipWs(s, i) == IF IsWs(At(s, i)) THEN SkipWs(s, i + 1) ELSE i

RECURSIVE ScanDigits(_, _)
\* the first position at or after i that holds no digit
ScanDigits(s, i) == IF IsDigit(At(s, i)) THEN ScanDigits(s, i + 1) ELSE i

RECURSIVE DigitsToNat(_)
DigitsToNat(ds) ==
  IF ds = <<>> THEN 0
  ELSE 10 * DigitsToNat(SubSeq(ds, 1, Len(ds) - 1)) + DigitVal(ds[Len(ds)])

RECURSIVE StripZeros(_)
StripZeros(ds) ==
  IF ds # <<>> /\ ds[Len(ds)] = "0" THEN StripZeros(SubSeq(ds, 1, Len(ds) - 1)) ELSE ds

LiteralAt(s, i, word) ==
  /\ i + Len(word) - 1 <= Len(s)
  /\ SubSeq(s, i, i + Len(word) - 1) = word

ParseNumber(s, i) ==
  LET neg    == At(s, i) = "-"
      a      == IF neg THEN i + 1 ELSE i
      digEnd == ScanDigits(s, a)
      \* a leading zero is a whole integer part
      intEnd == IF At(s, a) = "0" THEN a + 1 ELSE digEnd
      hasFr  == At(s, intEnd) = "."
      frEnd  == IF hasFr THEN ScanDigits(s, intEnd + 1) ELSE intEnd
  IN IF digEnd = a \/ (hasFr /\ frEnd = intEnd + 1)
     THEN ParseFail
     ELSE ParseOk(Num(IF neg THEN -1 ELSE 1,
                      DigitsToNat(SubSeq(s, a, intEnd - 1)),
                      IF hasFr THEN StripZeros(SubSeq(s, intEnd + 1, frEnd - 1))
                               ELSE <<>>),
                  frEnd)

RECURSIVE ScanString(_, _)
\* the position of the closing quote at or after i, 0 if the text ends first
ScanString(s, i) ==
  IF i > Len(s) \/ s[i] = "\\" THEN 0
  ELSE IF s[i] = "\"" THEN i
  ELSE ScanString(s, i + 1)

\* i is the position after the opening quote
ParseString(s, i) ==
  LET q == ScanString(s, i)
  IN IF q = 0 THEN ParseFail ELSE ParseOk(Str(SubSeq(s, i, q - 1)), q + 1)

RECURSIVE ParseValue(_, _)
RECURSIVE ParseElems(_, _, _)
RECURSIVE ParseMembers(_, _, _)

ParseValue(s, i0) ==
  LET i == SkipWs(s, i0)
      c == At(s, i)
  IN CASE c = "[" ->
            LET j == SkipWs(s, i + 1)
            IN IF At(s, j) = "]" THEN ParseOk(Arr(<<>>), j + 1)
               ELSE ParseElems(s, j, <<>>)
       [] c = "{" ->
            LET j == SkipWs(s, i + 1)
            IN IF At(s, j) = "}" THEN ParseOk(Obj(<<>>), j + 1)
               ELSE ParseMembers(s, j, <<>>)
       [] c = "\"" -> ParseString(s, i + 1)
       [] IsDigit(c) \/ c = "-" -> ParseNumber(s, i)
       [] LiteralAt(s, i, <<"t","r","u","e">>) -> ParseOk(Bool(TRUE), i + 4)
       [] LiteralAt(s, i, <<"f","a","l","s","e">>) -> ParseOk(Bool(FALSE), i + 5)
       [] LiteralAt(s, i, <<"n","u","l","l">>) -> ParseOk(Null, i + 4)
       [] OTHER -> ParseFail

ParseElems(s, i, acc) ==
  LET r == ParseValue(s, i)
      j == SkipWs(s, r.next)
  IN IF ~r.ok THEN ParseFail
     ELSE IF At(s, j) = "," THEN ParseElems(s, j + 1, Append(acc, r.val))
     ELSE IF At(s, j) = "]" THEN ParseOk(Arr(Append(acc, r.val)), j + 1)
     ELSE ParseFail

ParseMembers(s, i0, acc) ==
  LET i == SkipWs(s, i0)
      k == IF At(s, i) = "\"" THEN ParseString(s, i + 1) ELSE ParseFail
      c == SkipWs(s, k.next)
      r == IF k.ok /\ At(s, c) = ":" THEN ParseValue(s, c + 1) ELSE ParseFail
      j == SkipWs(s, r.next)
  IN IF ~r.ok THEN ParseFail
     ELSE IF At(s, j) = "," THEN ParseMembers(s, j + 1, Append(acc, <<k.val.v, r.val>>))
     ELSE IF At(s, j) = "}" THEN ParseOk(Obj(Append(acc, <<k.val.v, r.val>>)), j + 1)
     ELSE ParseFail

\* JSON.parse(text): [ok |-> TRUE, val |-> the value] or ok = FALSE (it throws)
JSONparse(text) ==
  LET r == ParseValue(text, 1)
  IN IF r.ok /\ SkipWs(text, r.next) = Len(text) + 1
     THEN [ok |-> TRUE, val |-> r.val]
     ELSE [ok |-> FALSE, val |-> Undefined]

(***************************************************************************)
(* Value coercion                                                          *)
(***************************************************************************)
\* value.match(/^\d+(\.\d+)?$/)
MatchesNumeral(value) ==
  LET d == ScanDigits(value, 1)
      f == ScanDigits(value, d + 1)
  IN /\ d > 1
     /\ \/ d = Len(value) + 1
        \/ At(value, d) = "." /\ f > d + 1 /\ f = Len(value) + 1

\* variant of tryParseValue: without the fallback of the catch clause
tryParseValue_noFallback(value) ==
  IF /\ ~startsWith(value, "{") /\ ~startsWith(value, "[") /\ ~startsWith(value, "\"")
     /\ value # <<"t","r","u","e">> /\ value # <<"f","a","l","s","e">>
     /\ ~MatchesNumeral(value)
  THEN Str(value)
  ELSE JSONparse(value).val

tryParseValue(value) ==
  IF /\ ~startsWith(value, "{") /\ ~startsWith(value, "[") /\ ~startsWith(value, "\"")
     /\ value # <<"t","r","u","e">> /\ value # <<"f","a","l","s","e">>
     /\ ~MatchesNumeral(value)
  THEN Str(value)
  ELSE LET r == JSONparse(value)
       IN IF r.ok THEN r.val ELSE Str(value)

\* value.split(',').map(s => s.trim())
RECURSIVE split(_, _)
split(s, sep) ==
  IF \E i \in 1..Len(s) : s[i] = sep
  THEN LET i == CHOOSE i \in 1..Len(s) : s[i] = sep /\ \A j \in 1..(i - 1) : s[j] # sep
       IN <<SubSeq(s, 1, i - 1)>> \o split(SubSeq(s, i + 1, Len(s)), sep)
  ELSE <<s>>

RECURSIVE trim(_)
trim(s) ==
  IF s # <<>> /\ IsWs(s[1]) THEN trim(Tail(s))
  ELSE IF s # <<>> /\ IsWs(s[Len(s)]) THEN trim(SubSeq(s, 1, Len(s) - 1))
  ELSE s

(***************************************************************************)
(* Property names and string constants of the resolver                     *)
(***************************************************************************)
K_to_use == <<"t","o","-","u","s","e">>
K_DEFAULT_TOOLS == <<"D","E","F","A","U","L","T","_","T","O","O","L","S">>
K_TOOLS_suffix == <<"_","T","O","O","L","S">>
K_availableTools == <<"a","v","a","i","l","a","b","l","e","T","o","o","l","s">>
K_defaultTools == <<"d","e","f","a","u","l","t","T","o","o","l","s">>
K_hasOwnProperty == <<"h","a","s","O","w","n","P","r","o","p","e","r","t","y">>
K_clientUrl == <<"c","l","i","e","n","t","U","r","l">>
K_clientDb == <<"c","l","i","e","n","t","D","b">>
K_clientUser == <<"c","l","i","e","n","t","U","s","e","r">>
K_timeout == <<"t","i","m","e","o","u","t">>
K_retries == <<"r","e","t","r","i","e","s">>
K_debug == <<"d","e","b","u","g">>

NoToolsWarning == "No tools available - consider setting availableTools or to-use header"

(***************************************************************************)
(* Default configuration (priority level 3)                                *)
(***************************************************************************)
defaultConfig ==
  (K_clientUrl :> Str(<<"h","t","t","p",":","/","/","l","o","c","a","l","h","o","s","t",":","8","0","0","0">>))
  @@ (K_clientDb :> Str(<<"d","e","v","e","l","o","p","m","e","n","t">>))
  @@ (K_clientUser :> Str(<<"d","e","v","_","u","s","e","r">>))
  @@ (K_availableTools :> Arr(<<Str(<<"a","d","d">>), Str(<<"c","a","l","c","u","l","a","t","e">>), Str(<<"h","e","a","l","t","h","_","c","h","e","c","k">>)>>))
  @@ (K_timeout :> Num(1, 30000, <<>>))
  @@ (K_retries :> Num(1, 3, <<>>))
  @@ (K_debug :> Bool(FALSE))

\* { ...defaultConfig }
getDefaultConfig == [k \in DOMAIN defaultConfig |-> defaultConfig[k]]

(***************************************************************************)
(* Extraction of the header and environment layers                         *)
(***************************************************************************)
endsWith(s, suffix) ==
  /\ Len(s) >= Len(suffix)
  /\ SubSeq(s, Len(s) - Len(suffix) + 1, Len(s)) = suffix

\* typeof x
typeof(x) ==
  CASE x.t \in {"object", "array", "null"} -> "object"
    [] OTHER -> x.t

\* Object.entries(x) of an object or an array (index keys "0".."9")
ObjectEntries(x) ==
  IF x.t = "array"
  THEN [i \in 1..Len(x.v) |-> <<<<DigitChars[i]>>, x.v[i]>>]
  ELSE x.v

\* variant of HeaderEntry: a malformed to-use header leaves no entry
HeaderEntry_noFallback(config, key, value) ==
  LET camelKey == kebabToCamelCase(key)
      parsed   == JSONparse(value)
  IN IF key = K_to_use
     THEN IF parsed.ok THEN Put(config, K_to_use, parsed.val) ELSE config
     ELSE Put(config, camelKey, tryParseValue(value))

\* one iteration of the loop of extractHeaderConfig
HeaderEntry(config, key, value) ==
  LET camelKey == kebabToCamelCase(key)
      parsed   == JSONparse(value)
  IN IF key = K_to_use
     THEN Put(config, K_to_use, IF parsed.ok THEN parsed.val ELSE Arr(<<>>))
     ELSE Put(config, camelKey, tryParseValue(value))

RECURSIVE HeaderLoop(_, _, _)
HeaderLoop(entries, i, config) ==
  IF i > Len(entries) THEN config
  ELSE HeaderLoop(entries, i + 1, HeaderEntry(config, entries[i][1], entries[i][2]))

\* headers: the entries <<name, value>> of the Headers object, in its order
extractHeaderConfig(hs) == HeaderLoop(hs, 1, EmptyObject)

\* one iteration of the loop of extractEnvConfig
EnvEntry(config, key, value) ==
  LET camelKey == upperCaseToCamelCase(key)
      parsed   == JSONparse(value.v)
      items    == split(value.v, ",")
  IN IF typeof(value) # "string" THEN config
     ELSE IF key = K_DEFAULT_TOOLS \/ endsWith(key, K_TOOLS_suffix)
     THEN Put(config, camelKey,
              IF parsed.ok THEN parsed.val
              ELSE Arr([i \in 1..Len(items) |-> Str(trim(items[i]))]))
     ELSE Put(config, camelKey, tryParseValue(value.v))

RECURSIVE EnvLoop(_, _, _)
EnvLoop(entries, i, config) ==
  IF i > Len(entries) THEN config
  ELSE EnvLoop(entries, i + 1, EnvEntry(config, entries[i][1], entries[i][2]))

extractEnvConfig(e) ==
  IF ~Truthy(e) \/ typeof(e) # "object" THEN EmptyObject
  ELSE EnvLoop(ObjectEntries(e), 1, EmptyObject)

(***************************************************************************)
(* Console output: the lines a call writes, each with its level, its fixed *)
(* text and the interpolated key and value                                 *)
(***************************************************************************)
ConsoleLine(level, text, key, val) ==
  [level |-> level, text |-> text, key |-> key, val |-> val]

RECURSIVE HeaderWarnings(_, _)
\* the console.warn calls of the loop of extractHeaderConfig from entry i on
HeaderWarnings(entries, i) ==
  IF i > Len(entries) THEN <<>>
  ELSE (IF entries[i][1] = K_to_use /\ ~JSONparse(entries[i][2]).ok
        THEN <<ConsoleLine("warn", "Failed to parse \"to-use\" header",
                           entries[i][1], entries[i][2])>>
        ELSE <<>>) \o HeaderWarnings(entries, i + 1)

RECURSIVE EnvWarnings(_, _)
\* the console.warn calls of the loop of extractEnvConfig from entry i on
EnvWarnings(entries, i) ==
  IF i > Len(entries) THEN <<>>
  ELSE (IF /\ typeof(entries[i][2]) = "string"
           /\ \/ entries[i][1] = K_DEFAULT_TOOLS
              \/ endsWith(entries[i][1], K_TOOLS_suffix)
           /\ ~JSONparse(entries[i][2].v).ok
        THEN <<ConsoleLine("warn", "Failed to parse env var",
                           entries[i][1], entries[i][2].v)>>
        ELSE <<>>) \o EnvWarnings(entries, i + 1)

\* what extractHeaderConfig and extractEnvConfig write to the console
headerConsole(hs) == HeaderWarnings(hs, 1)
envConsole(e) ==
  IF ~Truthy(e) \/ typeof(e) # "object" THEN <<>>
  ELSE EnvWarnings(ObjectEntries(e), 1)

(***************************************************************************)
(* Priority resolution                                                     *)
(***************************************************************************)
\* obj.hasOwnProperty(key): "TypeError" when an own property of that name,
\* which is never a function here, hides Object.prototype.hasOwnProperty
hasOwnProperty(obj, key) ==
  IF K_hasOwnProperty \in DOMAIN obj THEN "TypeError"
  ELSE IF key \in DOMAIN obj THEN "true" ELSE "false"

\* variant of resolveKey: a layer counts only when its value is truthy
resolveKey_truthy(key, headerConfig, envConfig, defaults) ==
  IF hasOwnProperty(headerConfig, key) = "true" /\ Truthy(headerConfig[key])
  THEN [source |-> "header", value |-> headerConfig[key]]
  ELSE IF hasOwnProperty(envConfig, key) = "true" /\ Truthy(envConfig[key])
  THEN [source |-> "env", value |-> envConfig[key]]
  ELSE IF hasOwnProperty(defaults, key) = "true" /\ Truthy(defaults[key])
  THEN [source |-> "default", value |-> defaults[key]]
  ELSE [source |-> "none", value |-> Undefined]

\* variant of resolveKey: the defaults are consulted before the environment
resolveKey_defaultFirst(key, headerConfig, envConfig, defaults) ==
  IF hasOwnProperty(headerConfig, key) = "true" /\ headerConfig[key] # Undefined
  THEN [source |-> "header", value |-> headerConfig[key]]
  ELSE IF hasOwnProperty(defaults, key) = "true" /\ defaults[key] # Undefined
  THEN [source |-> "default", value |-> defaults[key]]
  ELSE IF hasOwnProperty(envConfig, key) = "true" /\ envConfig[key] # Undefined
  THEN [source |-> "env", value |-> envConfig[key]]
  ELSE [source |-> "none", value |-> Undefined]

\* variant of resolveKey: the environment is consulted before the headers
resolveKey_envFirst(key, headerConfig, envConfig, defaults) ==
  IF hasOwnProperty(envConfig, key) = "true" /\ envConfig[key] # Undefined
  THEN [source |-> "env", value |-> envConfig[key]]
  ELSE IF hasOwnProperty(headerConfig, key) = "true" /\ headerConfig[key] # Undefined
  THEN [source |-> "header", value |-> headerConfig[key]]
  ELSE IF hasOwnProperty(defaults, key) = "true" /\ defaults[key] # Undefined
  THEN [source |-> "default", value |-> defaults[key]]
  ELSE [source |-> "none", value |-> Undefined]

\* the layer that supplies key to the loop of resolveConfig
resolveKey(key, headerConfig, envConfig, defaults) ==
  IF hasOwnProperty(headerConfig, key) = "true" /\ headerConfig[key] # Undefined
  THEN [source |-> "header", value |-> headerConfig[key]]
  ELSE IF hasOwnProperty(envConfig, key) = "true" /\ envConfig[key] # Undefined
  THEN [source |-> "env", value |-> envConfig[key]]
  ELSE IF hasOwnProperty(defaults, key) = "true" /\ defaults[key] # Undefined
  THEN [source |-> "default", value |-> defaults[key]]
  ELSE [source |-> "none", value |-> Undefined]

\* whether the loop of resolveConfig raises on key
resolveKeyThrows(key, headerConfig, envConfig, defaults) ==
  \/ hasOwnProperty(headerConfig, key) = "TypeError"
  \/ /\ ~(hasOwnProperty(headerConfig, key) = "true" /\ headerConfig[key] # Undefined)
     /\ \/ hasOwnProperty(envConfig, key) = "TypeError"
        \/ /\ ~(hasOwnProperty(envConfig, key) = "true" /\ envConfig[key] # Undefined)
           /\ hasOwnProperty(defaults, key) = "TypeError"

\* variant of resolveToolFiltering: an empty to-use array does not win
resolveToolFiltering_nonEmpty(headerConfig, envConfig, defaults) ==
  IF /\ Truthy(Get(headerConfig, K_to_use)) /\ IsArray(Get(headerConfig, K_to_use))
     /\ Len(Get(headerConfig, K_to_use).v) > 0
  THEN Get(headerConfig, K_to_use)
  ELSE IF Truthy(Get(envConfig, K_defaultTools)) /\ IsArray(Get(envConfig, K_defaultTools))
  THEN Get(envConfig, K_defaultTools)
  ELSE IF Truthy(Get(envConfig, K_availableTools)) /\ IsArray(Get(envConfig, K_availableTools))
  THEN Get(envConfig, K_availableTools)
  ELSE IF Truthy(Get(defaults, K_availableTools)) /\ IsArray(Get(defaults, K_availableTools))
  THEN Get(defaults, K_availableTools)
  ELSE Arr(<<>>)

\* variant of resolveToolFiltering: without the Array.isArray tests
resolveToolFiltering_noArrayCheck(headerConfig, envConfig, defaults) ==
  IF Truthy(Get(headerConfig, K_to_use))
  THEN Get(headerConfig, K_to_use)
  ELSE IF Truthy(Get(envConfig, K_defaultTools))
  THEN Get(envConfig, K_defaultTools)
  ELSE IF Truthy(Get(envConfig, K_availableTools))
  THEN Get(envConfig, K_availableTools)
  ELSE IF Truthy(Get(defaults, K_availableTools))
  THEN Get(defaults, K_availableTools)
  ELSE Arr(<<>>)

resolveToolFiltering(headerConfig, envConfig, defaults) ==
  IF Truthy(Get(headerConfig, K_to_use)) /\ IsArray(Get(headerConfig, K_to_use))
  THEN Get(headerConfig, K_to_use)
  ELSE IF Truthy(Get(envConfig, K_defaultTools)) /\ IsArray(Get(envConfig, K_defaultTools))
  THEN Get(envConfig, K_defaultTools)
  ELSE IF Truthy(Get(envConfig, K_availableTools)) /\ IsArray(Get(envConfig, K_availableTools))
  THEN Get(envConfig, K_availableTools)
  ELSE IF Truthy(Get(defaults, K_availableTools)) /\ IsArray(Get(defaults, K_availableTools))
  THEN Get(defaults, K_availableTools)
  ELSE Arr(<<>>)

\* variant of getToolFilteringSource: the environment availableTools is forgotten
getToolFilteringSource_defaultToolsOnly(headerConfig, envConfig, defaults) ==
  IF Truthy(Get(headerConfig, K_to_use)) /\ IsArray(Get(headerConfig, K_to_use))
  THEN "header"
  ELSE IF Truthy(Get(envConfig, K_defaultTools)) /\ IsArray(Get(envConfig, K_defaultTools))
  THEN "env"
  ELSE "default"

getToolFilteringSource(headerConfig, envConfig, defaults) ==
  IF Truthy(Get(headerConfig, K_to_use)) /\ IsArray(Get(headerConfig, K_to_use))
  THEN "header"
  ELSE IF \/ Truthy(Get(envConfig, K_defaultTools)) /\ IsArray(Get(envConfig, K_defaultTools))
          \/ Truthy(Get(envConfig, K_availableTools)) /\ IsArray(Get(envConfig, K_availableTools))
  THEN "env"
  ELSE "default"

\* x.length of an array or a string
Length(x) == Len(x.v)

\* the outcome of a call: a returned value, or a raised error
Returned(value) == [threw |-> FALSE, value |-> value]
Thrown(error)   == [threw |-> TRUE, value |-> error]

\* variant of validate: the empty tool list goes unreported
validate_silent(tools) ==
  [isValid  |-> TRUE,
   errors   |-> <<>>,
   warnings |-> <<>>]

\* the validation result of resolveConfig for the resolved tool list
validate(tools) ==
  [isValid  |-> TRUE,
   errors   |-> <<>>,
   warnings |-> IF ~Truthy(tools) \/ Length(tools) = 0
                THEN <<NoToolsWarning>> ELSE <<>>]

\* resolveConfig from the three extracted layers on
resolveLayers(headerConfig, envConfig, defaults) ==
  LET allKeys == (DOMAIN defaults) \cup (DOMAIN envConfig) \cup (DOMAIN headerConfig)
      setKeys == { k \in allKeys :
                     resolveKey(k, headerConfig, envConfig, defaults).source # "none" }
      tools   == resolveToolFiltering(headerConfig, envConfig, defaults)
  IN IF \E k \in allKeys : resolveKeyThrows(k, headerConfig, envConfig, defaults)
     THEN Thrown("TypeError")
     ELSE Returned(
       [resolved   |-> [k \in setKeys \cup {K_availableTools} |->
                          IF k = K_availableTools THEN tools
                          ELSE resolveKey(k, headerConfig, envConfig, defaults).value],
        sources    |-> [k \in setKeys \cup {K_availableTools} |->
                          IF k = K_availableTools
                          THEN getToolFilteringSource(headerConfig, envConfig, defaults)
                          ELSE resolveKey(k, headerConfig, envConfig, defaults).source],
        validation |-> validate(tools),
        raw        |-> [headers |-> headerConfig, env |-> envConfig,
                        defaults |-> defaults]])

resolveConfig(hs, e) ==
  resolveLayers(extractHeaderConfig(hs), extractEnvConfig(e), getDefaultConfig)

(***************************************************************************)
(* Inputs: the requests and the deployments the model draws from           *)
(***************************************************************************)
RECURSIVE Join(_, _)
\* words.join(sep)
Join(words, sep) ==
  IF Len(words) = 0 THEN <<>>
  ELSE IF Len(words) = 1 THEN words[1]
  ELSE words[1] \o <<sep>> \o Join(Tail(words), sep)

\* the header name and the variable name made of the same words
HeaderNameOf(words) == Join(words, "-")
EnvNameOf(words)    == toUpperCase(Join(words, "_"))

\* the setting names of the model, as lists of lower-case words
NameWords ==
  <<<<<<"a","p","i">>, <<"2","f","a">>>>,
    <<<<"a","p","i">>, <<"u","r","l">>>>,
    <<<<"a","v","a","i","l","a","b","l","e">>, <<"t","o","o","l","s">>>>,
    <<<<"d","e","f","a","u","l","t">>, <<"t","o","o","l","s">>>>,
    <<<<"h","a","s">>, <<"o","w","n">>, <<"p","r","o","p","e","r","t","y">>>>,
    <<<<"t","i","m","e","o","u","t">>>>,
    <<<<"t","o">>, <<"u","s","e">>>>>>

\* for each name, in the order of NameWords, the header values a request may carry
HeaderSamples ==
  <<{<<"x">>},
    {<<"h">>},
    {<<"[","\"","a","\"","]">>, <<"5">>},
    {<<"[","\"","a","\"","]">>},
    {<<"x">>},
    {<<"0">>, <<"x">>},
    {<<"[","\"","a","\"","]">>, <<"[","]">>, <<"b","a","d">>, <<"5">>}>>

\* for each name, in the order of NameWords, the values the worker environment
\* may hold (strings, and one number as bound by a non-string var)
EnvSamples ==
  <<{Str(<<"y">>)},
    {Str(<<"e">>)},
    {Str(<<"[","\"","d","\"","]">>), Str(<<"7">>)},
    {Str(<<"[","\"","b","\"",",","\"","c","\"","]">>), Str(<<"[","]">>), Str(<<"b",","," ","c">>), Str(<<>>), Str(<<"5">>), Str(<<"n","u","l","l">>)},
    {Str(<<"y">>)},
    {Str(<<"9">>), Num(1, 9, <<>>)},
    {Str(<<"[","\"","b","\"","]">>)}>>

RECURSIVE SetToSortedSeq(_)
SetToSortedSeq(T) ==
  IF T = {} THEN <<>>
  ELSE LET m == CHOOSE m \in T : \A x \in T : m <= x
       IN <<m>> \o SetToSortedSeq(T \ {m})

RECURSIVE EntrySeqs(_, _, _, _)
\* the entry lists <<name, value>> over the names idx[i..], one sample each
EntrySeqs(idx, i, names, samples) ==
  IF i > Len(idx) THEN {<<>>}
  ELSE { <<<<names[idx[i]], v>>>> \o rest :
           v \in samples[idx[i]], rest \in EntrySeqs(idx, i + 1, names, samples) }

EntryLists(max, names, samples) ==
  UNION { EntrySeqs(SetToSortedSeq(T), 1, names, samples) :
            T \in { T \in SUBSET (DOMAIN names) : Cardinality(T) <= max } }

\* Headers objects: entries in the order of the lower-case names
HeaderInputs ==
  EntryLists(MaxHeaders, [i \in DOMAIN NameWords |-> HeaderNameOf(NameWords[i])],
             HeaderSamples)

\* env arguments: a missing or non-object argument, or an object of variables
EnvInputs ==
  {Undefined, Null, Str(<<"e">>)} \cup
  { Obj(es) : es \in EntryLists(MaxEnvVars,
                       [i \in DOMAIN NameWords |-> EnvNameOf(NameWords[i])],
                       EnvSamples) }

(***************************************************************************)
(* Tool registry: the registrations in the order of the Map, as pairs      *)
(* <<name, registration>>, and the cache of filtered lists by cache key    *)
(***************************************************************************)
\* const toolRegistry = { tools: new Map(), filteredCache: new Map() }
EmptyRegistry == [tools |-> <<>>, filteredCache |-> <<>>]

\* Map.prototype.has, get and set on the pairs <<key, value>> in insertion
\* order: set on a key already present keeps its place
MapHas(m, key) == \E i \in DOMAIN m : m[i][1] = key
MapGet(m, key) == m[CHOOSE i \in DOMAIN m : m[i][1] = key][2]
\* variant of MapSet: set on a key already present moves it to the end
MapSet_moveToEnd(m, key, val) ==
  Append(SelectSeq(m, LAMBDA entry : entry[1] # key), <<key, val>>)

MapSet(m, key, val) ==
  IF MapHas(m, key)
  THEN [i \in DOMAIN m |-> IF m[i][1] = key THEN <<key, val>> ELSE m[i]]
  ELSE Append(m, <<key, val>>)

\* a ?? b
Nullish(a, b) == IF a.t \in {"undefined", "null"} THEN b ELSE a

\* variant of registerTool: the filter cache is kept
registerTool_keepCache(registry, tool, options) ==
  LET registration ==
        [tool             |-> tool,
         enabledByDefault |-> Nullish(options.enabledByDefault, Bool(TRUE)),
         conditions       |-> Nullish(options.conditions, Arr(<<>>))]
  IN [tools         |-> MapSet(registry.tools, tool.name, registration),
      filteredCache |-> registry.filteredCache]

\* variant of registerTool: the filter cache survives a registration under a
\* name that is already registered
registerTool_keepCacheOnReplace(registry, tool, options) ==
  LET registration ==
        [tool             |-> tool,
         enabledByDefault |-> Nullish(options.enabledByDefault, Bool(TRUE)),
         conditions       |-> Nullish(options.conditions, Arr(<<>>))]
  IN [tools         |-> MapSet(registry.tools, tool.name, registration),
      filteredCache |-> IF MapHas(registry.tools, tool.name)
                        THEN registry.filteredCache ELSE <<>>]

\* registerTool(tool, options = {}): the registry after the call
registerTool(registry, tool, options) ==
  LET registration ==
        [tool             |-> tool,
         enabledByDefault |-> Nullish(options.enabledByDefault, Bool(TRUE)),
         conditions       |-> Nullish(options.conditions, Arr(<<>>))]
  IN [tools         |-> MapSet(registry.tools, tool.name, registration),
      filteredCache |-> <<>>]

\* the options argument left out
NoOptions == [enabledByDefault |-> Undefined, conditions |-> Undefined]

RECURSIVE registerTools_keepOptions(_, _)
\* variant of registerTools: a name already registered keeps its options
registerTools_keepOptions(registry, tools) ==
  IF tools = <<>> THEN registry
  ELSE LET name == Head(tools).name
           old  == MapGet(registry.tools, name)
       IN registerTools_keepOptions(
            registerTool(registry, Head(tools),
                         IF MapHas(registry.tools, name)
                         THEN [enabledByDefault |-> old.enabledByDefault,
                               conditions       |-> old.conditions]
                         ELSE NoOptions),
            Tail(tools))

RECURSIVE registerTools(_, _)
\* tools.forEach(tool => registerTool(tool))
registerTools(registry, tools) ==
  IF tools = <<>> THEN registry
  ELSE registerTools(registerTool(registry, Head(tools), NoOptions), Tail(tools))

getAllTools(registry) ==
  [i \in DOMAIN registry.tools |-> registry.tools[i][2].tool]

\* registration?.tool
getTool(registry, name) ==
  IF MapHas(registry.tools, name) THEN MapGet(registry.tools, name).tool
  ELSE Undefined

\* variant of isToolRegistered: true as soon as any tool is registered
isToolRegistered_anyTool(registry, name) == Bool(Len(registry.tools) > 0)

isToolRegistered(registry, name) == Bool(MapHas(registry.tools, name))

\* variant of clearRegistry: the filter cache is kept
clearRegistry_toolsOnly(registry) ==
  [tools |-> <<>>, filteredCache |-> registry.filteredCache]

clearRegistry(registry) == [tools |-> <<>>, filteredCache |-> <<>>]

getRegistryStats(registry) ==
  [totalTools   |-> Len(registry.tools),
   cacheEntries |-> Cardinality(DOMAIN registry.filteredCache),
   tools        |-> [i \in DOMAIN registry.tools |-> registry.tools[i][1]]]

(***************************************************************************)
(* Tool filter                                                             *)
(***************************************************************************)
RECURSIVE NatToDigits(_)
NatToDigits(n) ==
  IF n < 10 THEN <<DigitChars[n + 1]>>
  ELSE NatToDigits(n \div 10) \o <<DigitChars[(n % 10) + 1]>>

RECURSIVE ToText(_)
RECURSIVE JoinValues(_, _)
\* String(x)
ToText(x) ==
  CASE x.t = "string"    -> x.v
    [] x.t = "boolean"   -> IF x.v[1] THEN <<"t","r","u","e">> ELSE <<"f","a","l","s","e">>
    [] x.t = "number"    -> (IF x.v[1] < 0 THEN <<"-">> ELSE <<>>) \o NatToDigits(x.v[2])
                            \o (IF x.v[3] = <<>> THEN <<>> ELSE <<".">> \o x.v[3])
    [] x.t = "undefined" -> <<"u","n","d","e","f","i","n","e","d">>
    [] x.t = "null"      -> <<"n","u","l","l">>
    [] x.t = "array"     -> JoinValues(x.v, ",")
    [] OTHER             -> <<"[","o","b","j","e","c","t"," ","O","b","j","e","c","t","]">>

\* items.join(sep): null and undefined items give the empty string
JoinValues(items, sep) ==
  Join([i \in DOMAIN items |->
          IF items[i].t \in {"undefined", "null"} THEN <<>> ELSE ToText(items[i])], sep)

\* list.includes(x), for a primitive x
includes(list, x) == \E i \in DOMAIN list.v : list.v[i] = x

\* a function value, known by its name
Fn(name) == [t |-> "function", v |-> name]

\* the predicates a condition may carry: v => v === true, and
\* config => Boolean(config.debug)
CallFunction(fn, x) ==
  CASE fn.v = "isTrue"  -> x = Bool(TRUE)
    [] fn.v = "debugOn" -> Truthy(Get(x, K_debug))
    [] OTHER            -> FALSE

\* a === b: objects and arrays of different origin are never identical
StrictEquals(a, b) == a = b /\ a.t \notin {"array", "object"}

\* variant of evaluateCondition: a 'config' condition without a field name is
\* met, and so is a condition of an unknown type
evaluateCondition_lenient(condition, config) ==
  CASE condition.type = "config" ->
         IF ~Truthy(condition.field) THEN TRUE
         ELSE IF condition.value.t = "function"
              THEN CallFunction(condition.value, Get(config, condition.field.v))
              ELSE StrictEquals(Get(config, condition.field.v), condition.value)
    [] condition.type = "environment" -> TRUE
    [] condition.type = "custom" ->
         IF Truthy(condition.validator) THEN CallFunction(condition.validator, config)
         ELSE TRUE
    [] OTHER -> TRUE

evaluateCondition(condition, config) ==
  CASE condition.type = "config" ->
         IF ~Truthy(condition.field) THEN FALSE
         ELSE IF condition.value.t = "function"
              THEN CallFunction(condition.value, Get(config, condition.field.v))
              ELSE StrictEquals(Get(config, condition.field.v), condition.value)
    [] condition.type = "environment" -> TRUE
    [] condition.type = "custom" ->
         IF Truthy(condition.validator) THEN CallFunction(condition.validator, config)
         ELSE TRUE
    [] OTHER -> FALSE

\* tool.metadata?.[field]
MetaField(tool, field) ==
  IF tool.metadata = Undefined THEN Undefined ELSE tool.metadata[field]

\* the outcomes of shouldIncludeTool: true, or the reason of the exclusion
Included == [ok |-> TRUE, text |-> "", arg |-> ""]
Reason(text, arg) == [ok |-> FALSE, text |-> text, arg |-> arg]

RECURSIVE FirstUnmet(_, _, _)
\* the loop over the conditions from index i on
FirstUnmet(conditions, i, config) ==
  IF i > Len(conditions) THEN Included
  ELSE IF ~evaluateCondition(conditions[i], config)
       THEN Reason("Condition not met: ", conditions[i].type)
       ELSE FirstUnmet(conditions, i + 1, config)

\* variant of shouldIncludeTool: the exclude list is not consulted
shouldIncludeTool_noExclude(tool, registration, config, options) ==
  LET toolCategory == MetaField(tool, "category")
      toolTags     == IF Truthy(MetaField(tool, "tags"))
                      THEN MetaField(tool, "tags") ELSE Arr(<<>>)
  IN IF ~Truthy(registration.enabledByDefault)
     THEN Reason("Tool is disabled by default", "")
     ELSE IF Truthy(options.include) /\ ~includes(options.include, Str(tool.name))
     THEN Reason("Not in include list", "")
     ELSE IF /\ Truthy(options.categories)
             /\ (~Truthy(toolCategory) \/ ~includes(options.categories, toolCategory))
     THEN Reason("Category not in allowed list", "")
     ELSE IF /\ Truthy(options.requiredTags) /\ Length(options.requiredTags) > 0
             /\ \E i \in DOMAIN options.requiredTags.v :
                  ~includes(toolTags, options.requiredTags.v[i])
     THEN Reason("Missing required tags", "")
     ELSE IF /\ Truthy(MetaField(tool, "requiresAuth"))
             /\ options.includeAuthRequired = Bool(FALSE)
     THEN Reason("Tool requires authentication but auth tools are excluded", "")
     ELSE FirstUnmet((IF Truthy(registration.conditions)
                      THEN registration.conditions ELSE Arr(<<>>)).v, 1, config)

\* variant of shouldIncludeTool: the exclude list is consulted before the
\* include list
shouldIncludeTool_excludeFirst(tool, registration, config, options) ==
  LET toolCategory == MetaField(tool, "category")
      toolTags     == IF Truthy(MetaField(tool, "tags"))
                      THEN MetaField(tool, "tags") ELSE Arr(<<>>)
  IN IF ~Truthy(registration.enabledByDefault)
     THEN Reason("Tool is disabled by default", "")
     ELSE IF Truthy(options.exclude) /\ includes(options.exclude, Str(tool.name))
     THEN Reason("In exclude list", "")
     ELSE IF Truthy(options.include) /\ ~includes(options.include, Str(tool.name))
     THEN Reason("Not in include list", "")
     ELSE IF /\ Truthy(options.categories)
             /\ (~Truthy(toolCategory) \/ ~includes(options.categories, toolCategory))
     THEN Reason("Category not in allowed list", "")
     ELSE IF /\ Truthy(options.requiredTags) /\ Length(options.requiredTags) > 0
             /\ \E i \in DOMAIN options.requiredTags.v :
                  ~includes(toolTags, options.requiredTags.v[i])
     THEN Reason("Missing required tags", "")
     ELSE IF /\ Truthy(MetaField(tool, "requiresAuth"))
             /\ options.includeAuthRequired = Bool(FALSE)
     THEN Reason("Tool requires authentication but auth tools are excluded", "")
     ELSE FirstUnmet((IF Truthy(registration.conditions)
                      THEN registration.conditions ELSE Arr(<<>>)).v, 1, config)

shouldIncludeTool(tool, registration, config, options) ==
  LET toolCategory == MetaField(tool, "category")
      toolTags     == IF Truthy(MetaField(tool, "tags"))
                      THEN MetaField(tool, "tags") ELSE Arr(<<>>)
  IN IF ~Truthy(registration.enabledByDefault)
     THEN Reason("Tool is disabled by default", "")
     ELSE IF Truthy(options.include) /\ ~includes(options.include, Str(tool.name))
     THEN Reason("Not in include list", "")
     ELSE IF Truthy(options.exclude) /\ includes(options.exclude, Str(tool.name))
     THEN Reason("In exclude list", "")
     ELSE IF /\ Truthy(options.categories)
             /\ (~Truthy(toolCategory) \/ ~includes(options.categories, toolCategory))
     THEN Reason("Category not in allowed list", "")
     ELSE IF /\ Truthy(options.requiredTags) /\ Length(options.requiredTags) > 0
             /\ \E i \in DOMAIN options.requiredTags.v :
                  ~includes(toolTags, options.requiredTags.v[i])
     THEN Reason("Missing required tags", "")
     ELSE IF /\ Truthy(MetaField(tool, "requiresAuth"))
             /\ options.includeAuthRequired = Bool(FALSE)
     THEN Reason("Tool requires authentication but auth tools are excluded", "")
     ELSE FirstUnmet((IF Truthy(registration.conditions)
                      THEN registration.conditions ELSE Arr(<<>>)).v, 1, config)

\* list?.join(',') || ''
JoinedOrEmpty(list) ==
  IF list.t \in {"undefined", "null"} THEN <<>> ELSE JoinValues(list.v, ",")

createFilterCacheKey(config, options) ==
  Join(<<JoinValues(Get(config, K_availableTools).v, ","),
         JoinedOrEmpty(options.include),
         JoinedOrEmpty(options.exclude),
         JoinedOrEmpty(options.categories),
         JoinedOrEmpty(options.requiredTags),
         IF options.includeAuthRequired.t \in {"undefined", "null"}
         THEN ToText(Undefined) ELSE ToText(options.includeAuthRequired)>>, "|")

\* variant of createFilterResult: the excluded count is that of the empty list
createFilterResult_noneExcluded(tools, registry) ==
  [tools    |-> tools,
   excluded |-> <<>>,
   summary  |-> [total    |-> Len(registry.tools),
                 included |-> Len(tools),
                 excluded |-> 0]]

createFilterResult(tools, registry) ==
  [tools    |-> tools,
   excluded |-> <<>>,
   summary  |-> [total    |-> Len(registry.tools),
                 included |-> Len(tools),
                 excluded |-> Len(registry.tools) - Len(tools)]]

\* variant of computeFilter: the tools narrowed away get no exclusion entry
computeFilter_noDropped(registry, config, options) ==
  LET regs     == registry.tools
      verdict  == [i \in DOMAIN regs |->
                     shouldIncludeTool(regs[i][2].tool, regs[i][2], config, options)]
      idx      == [i \in DOMAIN regs |-> i]
      included == SelectSeq(idx, LAMBDA i : verdict[i].ok)
      rejected == SelectSeq(idx, LAMBDA i : ~verdict[i].ok)
      narrowed == /\ Truthy(Get(config, K_availableTools))
                  /\ Length(Get(config, K_availableTools)) > 0
      requested(i) == includes(Get(config, K_availableTools), Str(regs[i][1]))
      final    == IF narrowed THEN SelectSeq(included, requested) ELSE included
      dropped  == <<>>
      excluded == [k \in DOMAIN rejected |->
                     [tool   |-> regs[rejected[k]][2].tool.name,
                      reason |-> verdict[rejected[k]]]]
                  \o [k \in DOMAIN dropped |->
                     [tool   |-> regs[dropped[k]][2].tool.name,
                      reason |-> Reason("Not in requested tools list", "")]]
  IN [tools    |-> [k \in DOMAIN final |-> regs[final[k]][2].tool],
      excluded |-> excluded,
      summary  |-> [total    |-> Len(regs),
                    included |-> Len(final),
                    excluded |-> Len(excluded)]]

\* variant of computeFilter: the requested list never narrows the result
computeFilter_noNarrowing(registry, config, options) ==
  LET regs     == registry.tools
      verdict  == [i \in DOMAIN regs |->
                     shouldIncludeTool(regs[i][2].tool, regs[i][2], config, options)]
      idx      == [i \in DOMAIN regs |-> i]
      included == SelectSeq(idx, LAMBDA i : verdict[i].ok)
      rejected == SelectSeq(idx, LAMBDA i : ~verdict[i].ok)
      narrowed == FALSE
      requested(i) == includes(Get(config, K_availableTools), Str(regs[i][1]))
      final    == IF narrowed THEN SelectSeq(included, requested) ELSE included
      dropped  == IF narrowed THEN SelectSeq(included, LAMBDA i : ~requested(i))
                  ELSE <<>>
      excluded == [k \in DOMAIN rejected |->
                     [tool   |-> regs[rejected[k]][2].tool.name,
                      reason |-> verdict[rejected[k]]]]
                  \o [k \in DOMAIN dropped |->
                     [tool   |-> regs[dropped[k]][2].tool.name,
                      reason |-> Reason("Not in requested tools list", "")]]
  IN [tools    |-> [k \in DOMAIN final |-> regs[final[k]][2].tool],
      excluded |-> excluded,
      summary  |-> [total    |-> Len(regs),
                    included |-> Len(final),
                    excluded |-> Len(excluded)]]

\* variant of computeFilter: an empty requested list narrows the result too
computeFilter_narrowOnEmpty(registry, config, options) ==
  LET regs     == registry.tools
      verdict  == [i \in DOMAIN regs |->
                     shouldIncludeTool(regs[i][2].tool, regs[i][2], config, options)]
      idx      == [i \in DOMAIN regs |-> i]
      included == SelectSeq(idx, LAMBDA i : verdict[i].ok)
      rejected == SelectSeq(idx, LAMBDA i : ~verdict[i].ok)
      narrowed == Truthy(Get(config, K_availableTools))
      requested(i) == includes(Get(config, K_availableTools), Str(regs[i][1]))
      final    == IF narrowed THEN SelectSeq(included, requested) ELSE included
      dropped  == IF narrowed THEN SelectSeq(included, LAMBDA i : ~requested(i))
                  ELSE <<>>
      excluded == [k \in DOMAIN rejected |->
                     [tool   |-> regs[rejected[k]][2].tool.name,
                      reason |-> verdict[rejected[k]]]]
                  \o [k \in DOMAIN dropped |->
                     [tool   |-> regs[dropped[k]][2].tool.name,
                      reason |-> Reason("Not in requested tools list", "")]]
  IN [tools    |-> [k \in DOMAIN final |-> regs[final[k]][2].tool],
      excluded |-> excluded,
      summary  |-> [total    |-> Len(regs),
                    included |-> Len(final),
                    excluded |-> Len(excluded)]]

\* the computation of filterTools on a cache miss: the result it returns
computeFilter(registry, config, options) ==
  LET regs     == registry.tools
      verdict  == [i \in DOMAIN regs |->
                     shouldIncludeTool(regs[i][2].tool, regs[i][2], config, options)]
      idx      == [i \in DOMAIN regs |-> i]
      included == SelectSeq(idx, LAMBDA i : verdict[i].ok)
      rejected == SelectSeq(idx, LAMBDA i : ~verdict[i].ok)
      narrowed == /\ Truthy(Get(config, K_availableTools))
                  /\ Length(Get(config, K_availableTools)) > 0
      requested(i) == includes(Get(config, K_availableTools), Str(regs[i][1]))
      final    == IF narrowed THEN SelectSeq(included, requested) ELSE included
      dropped  == IF narrowed THEN SelectSeq(included, LAMBDA i : ~requested(i))
                  ELSE <<>>
      excluded == [k \in DOMAIN rejected |->
                     [tool   |-> regs[rejected[k]][2].tool.name,
                      reason |-> verdict[rejected[k]]]]
                  \o [k \in DOMAIN dropped |->
                     [tool   |-> regs[dropped[k]][2].tool.name,
                      reason |-> Reason("Not in requested tools list", "")]]
  IN [tools    |-> [k \in DOMAIN final |-> regs[final[k]][2].tool],
      excluded |-> excluded,
      summary  |-> [total    |-> Len(regs),
                    included |-> Len(final),
                    excluded |-> Len(excluded)]]

\* variant of filterTools: an empty cached list counts as a miss
filterTools_emptyIsMiss(registry, config, options) ==
  LET cacheKey == createFilterCacheKey(config, options)
      hit      == /\ cacheKey \in DOMAIN registry.filteredCache
                  /\ registry.filteredCache[cacheKey] # <<>>
      result   == computeFilter(registry, config, options)
  IN IF hit
     THEN [value     |-> createFilterResult(registry.filteredCache[cacheKey], registry),
           registry  |-> registry,
           evaluated |-> 0]
     ELSE [value     |-> result,
           registry  |-> [registry EXCEPT !.filteredCache =
                            Put(registry.filteredCache, cacheKey, result.tools)],
           evaluated |-> Len(registry.tools)]

\* variant of filterTools: a miss leaves its own entry alone in the cache
filterTools_singleEntry(registry, config, options) ==
  LET cacheKey == createFilterCacheKey(config, options)
      hit      == cacheKey \in DOMAIN registry.filteredCache
      result   == computeFilter(registry, config, options)
  IN IF hit
     THEN [value     |-> createFilterResult(registry.filteredCache[cacheKey], registry),
           registry  |-> registry,
           evaluated |-> 0]
     ELSE [value     |-> result,
           registry  |-> [registry EXCEPT !.filteredCache =
                            Put(<<>>, cacheKey, result.tools)],
           evaluated |-> Len(registry.tools)]

\* filterTools(config, options = {}): the value returned, the registry after
\* the call and the number of shouldIncludeTool evaluations made
filterTools(registry, config, options) ==
  LET cacheKey == createFilterCacheKey(config, options)
      hit      == cacheKey \in DOMAIN registry.filteredCache
      result   == computeFilter(registry, config, options)
  IN IF hit
     THEN [value     |-> createFilterResult(registry.filteredCache[cacheKey], registry),
           registry  |-> registry,
           evaluated |-> 0]
     ELSE [value     |-> result,
           registry  |-> [registry EXCEPT !.filteredCache =
                            Put(registry.filteredCache, cacheKey, result.tools)],
           evaluated |-> Len(registry.tools)]

(***************************************************************************)
(* State machine: one request with its headers and environment, and the    *)
(* exported function that is called on it                                  *)
(***************************************************************************)
NoResult == Returned(Undefined)

\* the variables of the request, with the defaultConfig object of the module
\* (moduleDefaults) and the RestApiClient under construction or at work
\* (client), and those of the tool registry and of the McpServer (server: the
\* names given to this.server.tool, in call order)
requestVars  == <<headers, env, input, moduleDefaults, client>>
registryVars == <<toolRegistry, before, filterLog, evaluated, calls, server>>

\* no RestApiClient exists
NoClient == [pc |-> "none"]

\* no call made yet, on the registry as the module creates it
Quiet ==
  /\ called = "none"
  /\ args = <<>>
  /\ ret = NoResult
  /\ console = <<>>
  /\ toolRegistry = EmptyRegistry
  /\ before = EmptyRegistry
  /\ filterLog = <<>>
  /\ evaluated = 0
  /\ calls = 0
  /\ server = <<>>
  /\ moduleDefaults = defaultConfig

Idle ==
  /\ Quiet
  /\ client = NoClient

Init ==
  /\ headers \in HeaderInputs
  /\ env \in EnvInputs
  /\ input = <<>>
  /\ Idle

ExtractHeaderConfig ==
  /\ called = "none"
  /\ called' = "extractHeaderConfig"
  /\ ret' = Returned(extractHeaderConfig(headers))
  /\ console' = headerConsole(headers)
  /\ UNCHANGED <<requestVars, args, registryVars>>

ExtractEnvConfig ==
  /\ called = "none"
  /\ called' = "extractEnvConfig"
  /\ ret' = Returned(extractEnvConfig(env))
  /\ console' = envConsole(env)
  /\ UNCHANGED <<requestVars, args, registryVars>>

ResolveConfig ==
  /\ called = "none"
  /\ called' = "resolveConfig"
  /\ ret' = resolveConfig(headers, env)
  /\ console' = headerConsole(headers) \o envConsole(env)
  /\ UNCHANGED <<requestVars, args, registryVars>>

Next ==
  \/ ExtractHeaderConfig
  \/ ExtractEnvConfig
  \/ ResolveConfig

Spec == Init /\ [][Next]_vars

(***************************************************************************)
(* Value coercion on its own: tryParseValue applied to one string          *)
(***************************************************************************)
\* the characters of the enumerated arguments
ValueChars == {"0", "7", ".", "-", "[", "]", "{", "}", "\"", ",", ":", " ", "x"}

\* longer arguments: literals, lists, objects and near misses
ValueSamples ==
  { <<"t","r","u","e">>, <<"f","a","l","s","e">>, <<"n","u","l","l">>,
    <<"t","r","u","e"," ">>, <<"T","r","u","e">>,
    <<"0","0","7",".","5">>, <<"7","0",".","0","7">>, <<"7",".","7",".","7">>,
    <<"[","\"","x","\"",",","7","]">>, <<"[","\"","x","\"",",","]">>,
    <<"{","\"","x","\"",":","0","}">>, <<"{","x",":","0","}">>,
    <<"\"","x"," ","7","\"">>, <<"\"","x","\"","\"">>,
    <<"[","t","r","u","e","]">>, <<"p","l","a","i","n">> }

ValueInputs ==
  ValueSamples \cup UNION { [1..k -> ValueChars] : k \in 0..MaxValueLen }

InitCoercion ==
  /\ headers = <<>>
  /\ env = Undefined
  /\ input \in ValueInputs
  /\ Idle

TryParseValue ==
  /\ called = "none"
  /\ called' = "tryParseValue"
  /\ ret' = Returned(tryParseValue(input))
  /\ console' = <<>>
  /\ UNCHANGED <<requestVars, args, registryVars>>

NextCoercion == TryParseValue

SpecCoercion == InitCoercion /\ [][NextCoercion]_vars

(***************************************************************************)
(* The registry on its own: a run of calls of its exported functions       *)
(***************************************************************************)
Name_a == <<"a">>
Name_b == <<"b">>
NameSamples == {Name_a, Name_b}

\* tool definitions, two of them of the same name
ToolA ==
  [name |-> Name_a, description |-> "first a",
   metadata |-> [category |-> Str(<<"m">>), tags |-> Arr(<<Str(<<"t">>)>>),
                 requiresAuth |-> Undefined]]
ToolA2 ==
  [name |-> Name_a, description |-> "second a", metadata |-> Undefined]
ToolB ==
  [name |-> Name_b, description |-> "b",
   metadata |-> [category |-> Undefined, tags |-> Undefined,
                 requiresAuth |-> Bool(TRUE)]]
ToolSamples == {ToolA, ToolA2, ToolB}
ToolListSamples ==
  {<<>>, <<ToolA, ToolB>>, <<ToolB, ToolA2, ToolA>>}

\* registration options: none, disabled, and a condition on config.debug
Disabled == [enabledByDefault |-> Bool(FALSE), conditions |-> Undefined]
DebugOnly ==
  [enabledByDefault |-> Undefined,
   conditions |-> Arr(<<[type |-> "config", field |-> Str(K_debug),
                         value |-> Bool(TRUE), validator |-> Undefined]>>)]
RegistrationSamples == {NoOptions, Disabled, DebugOnly}

\* the resolved configurations of requests with these headers
ConfigHeaderSamples ==
  { <<>>,
    << <<K_to_use, <<"[","]">>>> >>,
    << <<K_to_use, <<"[","\"","a","\"","]">>>> >>,
    << <<K_to_use, <<"[","\"","b","\"",",","\"","a","\"","]">>>> >>,
    << <<K_to_use, <<"[","]">>>>, <<K_debug, <<"t","r","u","e">>>> >> }
ConfigSamples == { resolveConfig(hs, Undefined).value.resolved : hs \in ConfigHeaderSamples }

\* filter options: left out, or one of the fields given
NoFilter ==
  [include |-> Undefined, exclude |-> Undefined, categories |-> Undefined,
   requiredTags |-> Undefined, includeAuthRequired |-> Undefined]
FilterSamples ==
  { NoFilter,
    [NoFilter EXCEPT !.include = Arr(<<Str(Name_a)>>)],
    [NoFilter EXCEPT !.include = Arr(<<>>)],
    [NoFilter EXCEPT !.categories = Arr(<<Str(<<"m">>)>>)],
    [NoFilter EXCEPT !.includeAuthRequired = Bool(FALSE)] }

InitRegistry ==
  /\ headers = <<>>
  /\ env = Undefined
  /\ input = <<>>
  /\ Idle

\* what every registry call records: its name, its arguments and the
\* registry it found
Call(name, arguments) ==
  /\ calls < MaxCalls
  /\ calls' = calls + 1
  /\ called' = name
  /\ args' = arguments
  /\ before' = toolRegistry
  /\ UNCHANGED <<requestVars, server>>

\* the call registerTool(tool, options)
RegisterToolWith(tool, options) ==
  /\ Call("registerTool", [tool |-> tool, options |-> options])
  /\ toolRegistry' = registerTool(toolRegistry, tool, options)
  /\ ret' = Returned(Undefined)
  /\ console' = <<ConsoleLine("log", "Registered tool", tool.name, <<>>)>>
  /\ filterLog' = <<>>
  /\ evaluated' = 0

RegisterTool ==
  \E tool \in ToolSamples, options \in RegistrationSamples :
    RegisterToolWith(tool, options)

RegisterTools ==
  \E tools \in ToolListSamples :
    /\ Call("registerTools", [tools |-> tools])
    /\ toolRegistry' = registerTools(toolRegistry, tools)
    /\ ret' = Returned(Undefined)
    /\ console' = [i \in DOMAIN tools |->
                     ConsoleLine("log", "Registered tool", tools[i].name, <<>>)]
    /\ filterLog' = IF tools = <<>> THEN filterLog ELSE <<>>
    /\ evaluated' = 0

ClearRegistry ==
  /\ Call("clearRegistry", <<>>)
  /\ toolRegistry' = clearRegistry(toolRegistry)
  /\ ret' = Returned(Undefined)
  /\ console' = <<>>
  /\ filterLog' = <<>>
  /\ evaluated' = 0

GetTool ==
  \E name \in NameSamples :
    /\ Call("getTool", [name |-> name])
    /\ ret' = Returned(getTool(toolRegistry, name))
    /\ console' = <<>>
    /\ evaluated' = 0
    /\ UNCHANGED <<toolRegistry, filterLog>>

IsToolRegistered ==
  \E name \in NameSamples :
    /\ Call("isToolRegistered", [name |-> name])
    /\ ret' = Returned(isToolRegistered(toolRegistry, name))
    /\ console' = <<>>
    /\ evaluated' = 0
    /\ UNCHANGED <<toolRegistry, filterLog>>

GetAllTools ==
  /\ Call("getAllTools", <<>>)
  /\ ret' = Returned(getAllTools(toolRegistry))
  /\ console' = <<>>
  /\ evaluated' = 0
  /\ UNCHANGED <<toolRegistry, filterLog>>

GetRegistryStats ==
  /\ Call("getRegistryStats", <<>>)
  /\ ret' = Returned(getRegistryStats(toolRegistry))
  /\ console' = <<>>
  /\ evaluated' = 0
  /\ UNCHANGED <<toolRegistry, filterLog>>

\* filterLog: for the arguments of each filterTools call since the last
\* change of the registry, the first result and the number of calls
FilterToolsWith(config, options) ==
  LET r   == filterTools(toolRegistry, config, options)
      key == <<config, options>>
  IN /\ Call("filterTools", [config |-> config, options |-> options])
     /\ toolRegistry' = r.registry
     /\ ret' = Returned(r.value)
     /\ console' = <<>>
     /\ evaluated' = r.evaluated
     /\ filterLog' =
          IF key \in DOMAIN filterLog
          THEN [filterLog EXCEPT ![key].count = @ + 1]
          ELSE Put(filterLog, key, [first |-> r.value, count |-> 1])

FilterTools ==
  \E config \in ConfigSamples, options \in FilterSamples :
    FilterToolsWith(config, options)

NextRegistry ==
  \/ RegisterTool
  \/ RegisterTools
  \/ ClearRegistry
  \/ GetTool
  \/ IsToolRegistered
  \/ GetAllTools
  \/ GetRegistryStats
  \/ FilterTools

SpecRegistry == InitRegistry /\ [][NextRegistry]_vars

(***************************************************************************)
(* The filter on its own: some registrations, then one filterTools call,   *)
(* on tools, conditions, configurations and options of every kind          *)
(***************************************************************************)
ToolB2 ==
  [name |-> Name_b, description |-> "second b",
   metadata |-> [category |-> Str(<<"n">>),
                 tags |-> Arr(<<Str(<<"t">>), Str(<<"u">>)>>),
                 requiresAuth |-> Bool(FALSE)]]
DetailedTools == {ToolA, ToolA2, ToolB, ToolB2}

\* an 'environment' condition followed by a 'custom' one with a validator
Validated ==
  [enabledByDefault |-> Bool(TRUE),
   conditions |-> Arr(<<[type |-> "environment", field |-> Undefined,
                         value |-> Undefined, validator |-> Undefined],
                        [type |-> "custom", field |-> Undefined,
                         value |-> Undefined, validator |-> Fn("debugOn")]>>)]
\* a 'custom' and a 'config' condition, both unmet unless debug is on
TwoConditions ==
  [enabledByDefault |-> Undefined,
   conditions |-> Arr(<<[type |-> "custom", field |-> Undefined,
                         value |-> Undefined, validator |-> Fn("debugOn")],
                        [type |-> "config", field |-> Str(K_debug),
                         value |-> Bool(TRUE), validator |-> Undefined]>>)]
DetailedRegistrations == {NoOptions, Disabled, DebugOnly, Validated, TwoConditions}

DetailedHeaderSamples ==
  { <<>>,
    << <<K_to_use, <<"[","]">>>> >>,
    << <<K_to_use, <<"[","\"","a","\"","]">>>> >>,
    << <<K_to_use, <<"[","\"","b","\"",",","\"","a","\"","]">>>> >>,
    << <<K_to_use, <<"[","]">>>>, <<K_debug, <<"t","r","u","e">>>> >>,
    << <<K_to_use, <<"[","\"","a","\"","]">>>>, <<K_debug, <<"t","r","u","e">>>> >> }
DetailedConfigs ==
  { resolveConfig(hs, Undefined).value.resolved : hs \in DetailedHeaderSamples }

DetailedFilters ==
  { NoFilter,
    [NoFilter EXCEPT !.include = Arr(<<Str(Name_a)>>)],
    [NoFilter EXCEPT !.include = Arr(<<>>)],
    [NoFilter EXCEPT !.exclude = Arr(<<Str(Name_a)>>)],
    [NoFilter EXCEPT !.exclude = Arr(<<>>)],
    [NoFilter EXCEPT !.include = Arr(<<Str(Name_a), Str(Name_b)>>),
                     !.exclude = Arr(<<Str(Name_b)>>)],
    [NoFilter EXCEPT !.categories = Arr(<<Str(<<"m">>)>>)],
    [NoFilter EXCEPT !.categories = Arr(<<>>)],
    [NoFilter EXCEPT !.requiredTags = Arr(<<Str(<<"t">>)>>)],
    [NoFilter EXCEPT !.requiredTags = Arr(<<Str(<<"t">>), Str(<<"u">>)>>)],
    [NoFilter EXCEPT !.requiredTags = Arr(<<>>)],
    [NoFilter EXCEPT !.includeAuthRequired = Bool(FALSE)],
    [NoFilter EXCEPT !.includeAuthRequired = Bool(TRUE)],
    [NoFilter EXCEPT !.include = Arr(<<Str(Name_a)>>),
                     !.exclude = Arr(<<Str(Name_b)>>)],
    [NoFilter EXCEPT !.exclude = Arr(<<Str(Name_a)>>),
                     !.categories = Arr(<<Str(<<"n">>)>>)],
    [NoFilter EXCEPT !.categories = Arr(<<Str(<<"m">>)>>),
                     !.requiredTags = Arr(<<Str(<<"u">>)>>)],
    [NoFilter EXCEPT !.requiredTags = Arr(<<Str(<<"u">>)>>),
                     !.includeAuthRequired = Bool(FALSE)] }

RegisterDetailed ==
  /\ called # "filterTools"
  /\ calls < MaxTools
  /\ \E tool \in DetailedTools, options \in DetailedRegistrations :
       RegisterToolWith(tool, options)

FilterOnce ==
  /\ called # "filterTools"
  /\ \E config \in DetailedConfigs, options \in DetailedFilters :
       FilterToolsWith(config, options)

NextFilter ==
  \/ RegisterDetailed
  \/ FilterOnce

SpecFilter == InitRegistry /\ [][NextFilter]_vars

(***************************************************************************)
(* RestApiClient (clients/client.ts): the constructor, in its two steps    *)
(***************************************************************************)
\* a || b
Or(a, b) == IF Truthy(a) THEN a ELSE b

\* Number(text) of a string: white space trimmed, the empty string is 0, a
\* decimal numeral with an optional sign is its value, anything else is NaN
\* (numerals with an exponent or a radix prefix are not among the inputs)
StringToNumber(text) ==
  LET t      == trim(text)
      signed == startsWith(t, "-") \/ startsWith(t, "+")
      body   == IF signed THEN Tail(t) ELSE t
      d      == ScanDigits(body, 1)
      hasFr  == At(body, d) = "."
      f      == IF hasFr THEN ScanDigits(body, d + 1) ELSE d
  IN IF t = <<>> THEN [nan |-> FALSE, num |-> Num(1, 0, <<>>)]
     ELSE IF f = Len(body) + 1 /\ (d > 1 \/ f > d + 1)
     THEN [nan |-> FALSE,
           num |-> Num(IF startsWith(t, "-") THEN -1 ELSE 1,
                       DigitsToNat(SubSeq(body, 1, d - 1)),
                       IF hasFr THEN StripZeros(SubSeq(body, d + 1, f - 1)) ELSE <<>>)]
     ELSE [nan |-> TRUE, num |-> Num(1, 0, <<>>)]

\* Number(x): nan tells NaN, num is the number otherwise
NumberOf(x) ==
  CASE x.t = "number"  -> [nan |-> FALSE, num |-> x]
    [] x.t = "boolean" -> [nan |-> FALSE, num |-> Num(1, IF x.v[1] THEN 1 ELSE 0, <<>>)]
    [] x.t = "null"    -> [nan |-> FALSE, num |-> Num(1, 0, <<>>)]
    [] x.t = "string"  -> StringToNumber(x.v)
    [] x.t = "array"   -> StringToNumber(ToText(x))
    [] OTHER           -> [nan |-> TRUE, num |-> Num(1, 0, <<>>)]

\* Number(x) || fallback: NaN and 0 are falsy
NumberOr(x, fallback) ==
  IF NumberOf(x).nan \/ ~Truthy(NumberOf(x).num) THEN fallback ELSE NumberOf(x).num

K_apiUrl   == <<"a","p","i","U","r","l">>
K_apiToken == <<"a","p","i","T","o","k","e","n">>
K_apiKey   == <<"a","p","i","K","e","y">>

\* the default field mapping of buildConfig
defaultMapping ==
  [baseUrl |-> K_apiUrl, timeout |-> K_timeout, retries |-> K_retries,
   authToken |-> K_apiToken, apiKey |-> K_apiKey]

\* config[key] || config[key.toLowerCase()] || config[key.toUpperCase()]
getConfigValue(config, key) ==
  Or(Or(Get(config, key), Get(config, toLowerCase(key))), Get(config, toUpperCase(key)))

\* the members of the object literal of buildConfig that come before headers,
\* in their order; configMapping maps some of the field names, or none
buildConfigFields(resolvedConfig, configMapping) ==
  LET mapping == [f \in DOMAIN defaultMapping |->
                    IF f \in DOMAIN configMapping THEN configMapping[f]
                    ELSE defaultMapping[f]]
  IN [baseUrl   |-> Or(getConfigValue(resolvedConfig, mapping.baseUrl),
                       Str(<<"h","t","t","p",":","/","/","l","o","c","a","l","h","o","s","t",":","3","0","0","0">>)),
      timeout   |-> NumberOr(getConfigValue(resolvedConfig, mapping.timeout),
                             Num(1, 30000, <<>>)),
      retries   |-> NumberOr(getConfigValue(resolvedConfig, mapping.retries),
                             Num(1, 3, <<>>)),
      authToken |-> getConfigValue(resolvedConfig, mapping.authToken),
      apiKey    |-> getConfigValue(resolvedConfig, mapping.apiKey)]

K_Authorization == <<"A","u","t","h","o","r","i","z","a","t","i","o","n">>
K_X_API_Key     == <<"X","-","A","P","I","-","K","e","y">>

\* buildHeaders(config), thisConfig being this.config at the time of the
\* call: reading a property of undefined raises a TypeError
buildHeaders(thisConfig, config) ==
  LET base == Put(Put(Put(EmptyObject, <<"C","o","n","t","e","n","t","-","T","y","p","e">>, <<"a","p","p","l","i","c","a","t","i","o","n","/","j","s","o","n">>),
                      <<"A","c","c","e","p","t">>, <<"a","p","p","l","i","c","a","t","i","o","n","/","j","s","o","n">>),
                  <<"U","s","e","r","-","A","g","e","n","t">>, <<"M","C","P","-","C","l","i","e","n","t","/","1",".","0">>)
      auth == IF Truthy(thisConfig.authToken)
              THEN Put(base, K_Authorization, <<"B","e","a","r","e","r"," ">> \o ToText(thisConfig.authToken))
              ELSE base
  IN IF thisConfig = Undefined THEN Thrown("TypeError")
     ELSE Returned(IF Truthy(thisConfig.apiKey)
                   THEN Put(auth, K_X_API_Key, ToText(thisConfig.apiKey))
                   ELSE auth)

\* the requests, the deployments and the configMapping arguments of the client
Optional(entry) == {<<>>, <<entry>>}
ClientHeaderInputs ==
  { key \o token \o retries \o timeout :
      key     \in Optional(<<<<"a","p","i","-","k","e","y">>, <<"k">>>>),
      token   \in Optional(<<<<"a","p","i","-","t","o","k","e","n">>, <<"s">>>>),
      retries \in {<<>>} \cup { << <<K_retries, text>> >> : text \in {<<"0">>, <<"2">>, <<"x">>} },
      timeout \in {<<>>} \cup { << <<K_timeout, text>> >> : text \in {<<"0">>, <<"5">>} } }
ClientEnvInputs ==
  { Undefined, Obj(<< <<<<"A","P","I","T","O","K","E","N">>, Str(<<"e">>)>> >>) }
ConfigMappingInputs ==
  { <<>>, [f \in {"authToken"} |-> K_apiKey] }

InitClient ==
  /\ headers \in ClientHeaderInputs
  /\ env \in ClientEnvInputs
  /\ input \in ConfigMappingInputs
  /\ Idle

\* new RestApiClient(resolvedConfig, configMapping), up to the call of
\* buildHeaders: this.config is not assigned yet
BuildConfig ==
  /\ client.pc = "none"
  /\ called' = "buildConfig"
  /\ client' = [pc     |-> "buildHeaders",
                config |-> Undefined,
                fields |-> buildConfigFields(resolveConfig(headers, env).value.resolved,
                                             input)]
  /\ UNCHANGED <<headers, env, input, moduleDefaults, args, ret, console, registryVars>>

\* the rest of the constructor from the outcome of buildHeaders on: the
\* object literal is completed and assigned to this.config, or the error
\* leaves the constructor
Constructed(outcome) ==
  /\ client.pc = "buildHeaders"
  /\ called' = "constructor"
  /\ IF outcome.threw
     THEN /\ client' = [client EXCEPT !.pc = "thrown"]
          /\ ret' = outcome
          /\ console' = <<>>
     ELSE /\ client' = [client EXCEPT
                          !.pc = "ready",
                          !.config = [baseUrl   |-> client.fields.baseUrl,
                                      timeout   |-> client.fields.timeout,
                                      retries   |-> client.fields.retries,
                                      authToken |-> client.fields.authToken,
                                      apiKey    |-> client.fields.apiKey,
                                      headers   |-> outcome.value]]
          /\ ret' = Returned(Undefined)
          /\ console' = <<ConsoleLine("debug", "RestApiClient initialized", <<>>,
                                      [baseUrl |-> client.fields.baseUrl,
                                       timeout |-> client.fields.timeout,
                                       retries |-> client.fields.retries])>>
  /\ UNCHANGED <<headers, env, input, moduleDefaults, args, registryVars>>

BuildHeaders ==
  Constructed(buildHeaders(client.config, resolveConfig(headers, env).value.resolved))

NextClient ==
  \/ BuildConfig
  \/ BuildHeaders

SpecClient == InitClient /\ [][NextClient]_vars

(***************************************************************************)
(* RestApiClient.makeRequest: the retry loop of one request, the server     *)
(* answering each attempt as it likes                                      *)
(***************************************************************************)
\* the integer of an integral number value
IntOf(x) == x.v[1] * x.v[2]

RECURSIVE Pow(_, _)
\* Math.pow(base, n) for a natural n
Pow(base, n) == IF n = 0 THEN 1 ELSE base * Pow(base, n - 1)

\* a destructured option with its default
OptionOr(option, default) == IF option = Undefined THEN default ELSE option

\* variant of loopContinues: the last attempt is not made
loopContinues_oneLess(attempt, retries) == attempt < retries

\* the condition of the retry loop
loopContinues(attempt, retries) == attempt <= retries

\* the delay of the backoff after a failed attempt, in milliseconds
backoffDelay(attempt) == Pow(2, attempt) * 1000

\* what an attempt can come to: a response with an ok status whose body is
\* read, a response with another status, a failure of fetch (a network
\* error, or the abort of the timeout), or a response whose body cannot be
\* read, which the catch clause handles as the other failures
AttemptOutcomes == {"ok", "status", "network", "body"}

\* the clients as buildConfig makes them (retries is never 0 there), and the
\* options of the requests (testConnection asks for no retry and 5 seconds)
ClientSamples ==
  { [pc     |-> "ready",
     config |-> [baseUrl |-> Str(<<"h">>), timeout |-> Num(1, 30000, <<>>),
                 retries |-> Num(1, r, <<>>), authToken |-> Undefined,
                 apiKey |-> Undefined, headers |-> EmptyObject]] :
      r \in 1..MaxRetries }
RequestOptionSamples ==
  { [retries |-> r, timeout |-> t] :
      r \in {Undefined} \cup { Num(1, n, <<>>) : n \in 0..MaxRetries },
      t \in {Undefined, Num(1, 5000, <<>>)} }

InitRequest ==
  /\ headers = <<>>
  /\ env = Undefined
  /\ input \in RequestOptionSamples
  /\ client \in ClientSamples
  /\ Quiet

\* the state of the loop after a failed attempt has been dealt with
NextAttempt(request) ==
  /\ client' = [client EXCEPT
                  !.pc = IF loopContinues(request.attempt + 1, request.retries)
                         THEN "fetch" ELSE "thrown",
                  !.request = [request EXCEPT !.attempt = @ + 1]]
  /\ ret' = IF loopContinues(request.attempt + 1, request.retries)
            THEN ret ELSE Thrown(request.lastError)

\* makeRequest(endpoint, options), up to the first fetch
MakeRequest ==
  LET retries == IntOf(OptionOr(input.retries, client.config.retries))
      timeout == IntOf(OptionOr(input.timeout, client.config.timeout))
  IN /\ client.pc = "ready"
     /\ called' = "makeRequest"
     /\ args' = input
     /\ client' = [pc      |-> IF loopContinues(0, retries) THEN "fetch" ELSE "thrown",
                   config  |-> client.config,
                   request |-> [retries |-> retries, timeout |-> timeout,
                                attempt |-> 0, outcomes |-> <<>>, waits |-> <<>>,
                                lastError |-> Undefined]]
     /\ ret' = IF loopContinues(0, retries) THEN NoResult ELSE Thrown(Undefined)
     /\ console' = <<>>
     /\ UNCHANGED <<headers, env, input, moduleDefaults, registryVars>>

\* one attempt: fetch settles, and the body of the loop runs up to the
\* return, to the backoff or to the end of the loop
Fetch ==
  \E outcome \in AttemptOutcomes :
    LET request == [client.request EXCEPT
                      !.outcomes = Append(@, outcome),
                      !.lastError = IF outcome = "ok" THEN @
                                    ELSE [error |-> outcome,
                                          attempt |-> client.request.attempt]]
    IN /\ client.pc = "fetch"
       /\ called' = "fetch"
       /\ IF outcome = "ok"
          THEN /\ client' = [client EXCEPT !.pc = "returned", !.request = request]
               /\ ret' = Returned([status |-> "ok", attempt |-> request.attempt])
               /\ console' = <<>>
          ELSE /\ console' = <<ConsoleLine("warn", "Request attempt failed", <<>>,
                                 [attempt   |-> request.attempt + 1,
                                  willRetry |-> request.attempt < request.retries])>>
               /\ IF request.attempt < request.retries
                  THEN /\ client' = [client EXCEPT !.pc = "backoff", !.request = request]
                       /\ UNCHANGED ret
                  ELSE NextAttempt(request)
       /\ UNCHANGED <<headers, env, input, moduleDefaults, args, registryVars>>

\* the timer of the backoff fires, and the loop goes on
Backoff ==
  /\ client.pc = "backoff"
  /\ called' = "backoff"
  /\ NextAttempt([client.request EXCEPT
                    !.waits = Append(@, backoffDelay(client.request.attempt))])
  /\ console' = <<>>
  /\ UNCHANGED <<headers, env, input, moduleDefaults, args, registryVars>>

NextRequest ==
  \/ MakeRequest
  \/ Fetch
  \/ Backoff

\* every fetch settles (the abort signal of the timeout sees to it) and every
\* timer fires
SpecRequest == InitRequest /\ [][NextRequest]_vars /\ WF_vars(NextRequest)

(***************************************************************************)
(* A session of the worker: resolutions of several requests, with          *)
(* registrations and filter calls in between                               *)
(***************************************************************************)
\* variant of resolveConfigOn: resolved is the defaultConfig object of the
\* module itself, not a fresh object filled from a copy
resolveConfigOn_sharedDefaults(module, hs, e) ==
  LET outcome == resolveLayers(extractHeaderConfig(hs), extractEnvConfig(e),
                               [k \in DOMAIN module |-> module[k]])
  IN [outcome |-> outcome,
      module  |-> IF outcome.threw THEN module
                  ELSE [k \in (DOMAIN module) \cup (DOMAIN outcome.value.resolved) |->
                          IF k \in DOMAIN outcome.value.resolved
                          THEN outcome.value.resolved[k] ELSE module[k]]]

\* resolveConfig(headers, env) on the defaultConfig object of the module:
\* its outcome and the object after the call (getDefaultConfig hands out a
\* copy, and resolved is a fresh object)
resolveConfigOn(module, hs, e) ==
  [outcome |-> resolveLayers(extractHeaderConfig(hs), extractEnvConfig(e),
                             [k \in DOMAIN module |-> module[k]]),
   module  |-> module]

\* the requests and the deployments of a session
SessionHeaderSamples ==
  { <<>>,
    << <<K_to_use, <<"[","\"","a","\"","]">>>> >>,
    << <<K_timeout, <<"5">>>>, <<K_to_use, <<"[","]">>>> >>,
    << <<HeaderNameOf(NameWords[5]), <<"x">>>> >> }
SessionEnvSamples ==
  { Undefined,
    Obj(<< <<K_DEFAULT_TOOLS, Str(<<"[","\"","b","\"","]">>)>> >>) }

\* a resolveConfig call; input keeps, for each pair of headers and
\* environment, the outcome of the first call made with it and the number of
\* these calls
SessionResolve ==
  \E hs \in SessionHeaderSamples, e \in SessionEnvSamples :
    LET r == resolveConfigOn(moduleDefaults, hs, e)
    IN /\ calls < MaxCalls
       /\ calls' = calls + 1
       /\ called' = "resolveConfig"
       /\ args' = [headers |-> hs, env |-> e]
       /\ headers' = hs
       /\ env' = e
       /\ before' = toolRegistry
       /\ ret' = r.outcome
       /\ moduleDefaults' = r.module
       /\ console' = headerConsole(hs) \o envConsole(e)
       /\ input' = IF <<hs, e>> \in DOMAIN input
                   THEN [input EXCEPT ![<<hs, e>>].count = @ + 1]
                   ELSE Put(input, <<hs, e>>, [first |-> r.outcome, count |-> 1])
       /\ evaluated' = 0
       /\ UNCHANGED <<toolRegistry, filterLog, server, client>>

SessionRegister ==
  \E tool \in {ToolA, ToolB} : RegisterToolWith(tool, NoOptions)

SessionFilter ==
  \E config \in ConfigSamples : FilterToolsWith(config, NoFilter)

NextSession ==
  \/ SessionResolve
  \/ SessionRegister
  \/ SessionFilter

SpecSession == InitRegistry /\ [][NextSession]_vars

(***************************************************************************)
(* evaluateCondition on its own: one condition, evaluated against the       *)
(* resolved configuration of a request                                     *)
(***************************************************************************)
K_missing == <<"m","i","s","s","i","n","g">>
Condition(type, field, value, validator) ==
  [type |-> type, field |-> field, value |-> value, validator |-> validator]

\* conditions of every type, with and without the fields their type reads
ConditionSamples ==
  { Condition("config", Str(K_debug), Bool(TRUE), Undefined),
    Condition("config", Str(K_debug), Bool(FALSE), Undefined),
    Condition("config", Str(K_debug), Null, Undefined),
    Condition("config", Str(K_debug), Undefined, Undefined),
    Condition("config", Str(K_debug), Fn("isTrue"), Undefined),
    Condition("config", Undefined, Bool(TRUE), Undefined),
    Condition("config", Undefined, Undefined, Undefined),
    Condition("config", Undefined, Fn("isTrue"), Undefined),
    Condition("config", Str(<<>>), Undefined, Undefined),
    Condition("config", Str(K_missing), Undefined, Undefined),
    Condition("config", Str(K_missing), Bool(TRUE), Undefined),
    Condition("config", Str(K_missing), Null, Undefined),
    Condition("config", Str(K_missing), Fn("isTrue"), Undefined),
    Condition("config", Str(K_timeout), Num(1, 30000, <<>>), Undefined),
    Condition("config", Str(K_timeout), Str(<<"3","0","0","0","0">>), Undefined),
    Condition("config", Str(K_availableTools), Arr(<<>>), Undefined),
    Condition("config", Str(K_debug), Bool(TRUE), Fn("debugOn")),
    Condition("environment", Undefined, Undefined, Undefined),
    Condition("environment", Str(K_debug), Bool(TRUE), Undefined),
    Condition("custom", Undefined, Undefined, Undefined),
    Condition("custom", Undefined, Undefined, Fn("debugOn")),
    Condition("custom", Str(K_debug), Bool(FALSE), Fn("debugOn")),
    Condition("other", Undefined, Undefined, Undefined),
    Condition("other", Str(K_debug), Bool(FALSE), Fn("debugOn")) }

\* requests whose resolved configurations the conditions are evaluated against
ConditionHeaderSamples ==
  { <<>>,
    << <<K_debug, <<"t","r","u","e">>>> >>,
    << <<K_debug, <<"1">>>> >>,
    << <<K_timeout, <<"5">>>> >>,
    << <<K_missing, <<"t","r","u","e">>>> >>,
    << <<K_to_use, <<"[","]">>>> >> }

InitCondition ==
  /\ headers \in ConditionHeaderSamples
  /\ env = Undefined
  /\ input \in ConditionSamples
  /\ Idle

EvaluateCondition ==
  /\ called = "none"
  /\ called' = "evaluateCondition"
  /\ ret' = Returned(Bool(evaluateCondition(input,
                            resolveConfig(headers, env).value.resolved)))
  /\ console' = <<>>
  /\ UNCHANGED <<requestVars, args, registryVars>>

NextCondition == EvaluateCondition

SpecCondition == InitCondition /\ [][NextCondition]_vars

(***************************************************************************)
(* The MCP agent and the per-request configuration log (mcp.ts), with the  *)
(* example tools and the configuration summary (resolver.ts)               *)
(***************************************************************************)
\* str.includes(sub), on strings
stringIncludes(str, sub) ==
  \E i \in 1..(Len(str) - Len(sub) + 1) : SubSeq(str, i, i + Len(sub) - 1) = sub

\* the sequence without the repetitions of its elements, first places kept
RECURSIVE Distinct(_)
Distinct(keys) ==
  IF keys = <<>> THEN <<>>
  ELSE LET init == Distinct(SubSeq(keys, 1, Len(keys) - 1))
           last == keys[Len(keys)]
       IN IF \E i \in DOMAIN init : init[i] = last THEN init ELSE Append(init, last)

\* Object.keys(defaultConfig)
getDefaultConfigKeys ==
  <<K_clientUrl, K_clientDb, K_clientUser, K_availableTools, K_timeout,
    K_retries, K_debug>>

\* Object.keys of the resolved object of resolveConfig: availableTools, which
\* the object is created with, then the keys in the order of allKeys
resolvedKeys(hs, e) ==
  LET envConfig  == extractEnvConfig(e)
      entries    == IF ~Truthy(e) \/ typeof(e) # "object" THEN <<>> ELSE ObjectEntries(e)
      strings    == SelectSeq(entries, LAMBDA entry : typeof(entry[2]) = "string")
      envKeys    == [i \in DOMAIN strings |-> upperCaseToCamelCase(strings[i][1])]
      headerKeys == [i \in DOMAIN hs |->
                       IF hs[i][1] = K_to_use THEN K_to_use
                       ELSE kebabToCamelCase(hs[i][1])]
  IN Distinct(<<K_availableTools>> \o getDefaultConfigKeys \o envKeys \o headerKeys)

\* the source of a key as the summary prints it
SourceText(source) ==
  CASE source = "header"  -> <<"h","e","a","d","e","r">>
    [] source = "env"     -> <<"e","n","v">>
    [] source = "default" -> <<"d","e","f","a","u","l","t">>
    [] OTHER              -> <<"u","n","k","n","o","w","n">>

K_pass == <<"p","a","s","s">>
Redacted == <<"[","R","E","D","A","C","T","E","D","]">>

\* the line of one key in the summary
SummaryLine(key, value, source) ==
  LET valueStr == IF stringIncludes(toLowerCase(key), K_pass) THEN Redacted
                  ELSE IF IsArray(value)
                  THEN <<"[">> \o NatToDigits(Length(value)) \o <<" ","i","t","e","m","s","]">>
                  ELSE ToText(value)
  IN <<" ", " ">> \o key \o <<":", " ">> \o valueStr \o <<" ","(","f","r","o","m"," ">>
       \o SourceText(source) \o <<")">>

\* getConfigSummary(context), keys being Object.keys(context.resolved): the
\* status, the errors and warnings and the lines of the configuration values
\* (the first line, which holds the timestamp only, is left out)
getConfigSummary(context, keys) ==
  LET own == SelectSeq(keys, LAMBDA k : k \in DOMAIN context.resolved)
  IN [status   |-> context.validation.isValid,
      errors   |-> context.validation.errors,
      warnings |-> context.validation.warnings,
      values   |-> [i \in DOMAIN own |->
                      SummaryLine(own[i], context.resolved[own[i]],
                                  IF own[i] \in DOMAIN context.sources
                                  THEN context.sources[own[i]] ELSE "unknown")]]

\* the example tools, with the metadata the filter reads
addTool ==
  [name |-> <<"a","d","d">>, description |-> "Add two numbers together",
   metadata |-> [category |-> Str(<<"m","a","t","h">>),
                 tags |-> Arr(<<Str(<<"a","r","i","t","h","m","e","t","i","c">>), Str(<<"b","a","s","i","c">>)>>),
                 requiresAuth |-> Undefined]]
calculateTool ==
  [name |-> <<"c","a","l","c","u","l","a","t","e">>, description |-> "Perform arithmetic operations on two numbers",
   metadata |-> [category |-> Str(<<"m","a","t","h">>),
                 tags |-> Arr(<<Str(<<"a","r","i","t","h","m","e","t","i","c">>), Str(<<"c","a","l","c","u","l","a","t","o","r">>), Str(<<"o","p","e","r","a","t","i","o","n","s">>)>>),
                 requiresAuth |-> Undefined]]
healthCheckTool ==
  [name |-> <<"h","e","a","l","t","h","_","c","h","e","c","k">>, description |-> "Check system health and configuration status",
   metadata |-> [category |-> Str(<<"s","y","s","t","e","m">>),
                 tags |-> Arr(<<Str(<<"h","e","a","l","t","h">>), Str(<<"d","i","a","g","n","o","s","t","i","c","s">>), Str(<<"m","o","n","i","t","o","r","i","n","g">>)>>),
                 requiresAuth |-> Bool(FALSE)]]
apiGetTool    == [name |-> <<"a","p","i","_","g","e","t">>, description |-> "Make a GET request to any API endpoint", metadata |-> Undefined]
apiPostTool   == [name |-> <<"a","p","i","_","p","o","s","t">>, description |-> "Make a POST request to any API endpoint", metadata |-> Undefined]
apiHealthTool == [name |-> <<"a","p","i","_","h","e","a","l","t","h">>, description |-> "Check if the API is healthy and reachable", metadata |-> Undefined]
apiTools      == <<apiGetTool, apiPostTool, apiHealthTool>>
exampleTools  == <<addTool, calculateTool, healthCheckTool>> \o apiTools

\* the names that setupBackwardCompatibilityTools gives to this.server.tool
setupBackwardCompatibilityTools(tools) ==
  tools \o <<<<"a","d","d">>, <<"c","a","l","c","u","l","a","t","e">>, <<"h","e","a","l","t","h","_","c","h","e","c","k">>>>

\* the requests and the deployments of the server
\* the deployment variable that docs/GUIDE.md gives for the tool list
K_TO_USE == <<"T","O","_","U","S","E">>
K_api_token     == <<"a","p","i","-","t","o","k","e","n">>
K_client_secret == <<"c","l","i","e","n","t","-","s","e","c","r","e","t">>
K_db_password   == <<"d","b","-","p","a","s","s","w","o","r","d">>
K_API_TOKEN     == <<"A","P","I","_","T","O","K","E","N">>
SecretHeaderSamples ==
  { <<>> } \cup
  { << <<name, text>> >> :
      name \in {K_api_token, K_client_secret, K_db_password},
      text \in {<<"s">>, <<"x">>} }
ToUseHeaderSamples ==
  { <<>>,
    << <<K_to_use, <<"[","\"","a","d","d","\"","]">>>> >>,
    << <<K_to_use, <<"[","\"","a","p","i","_","g","e","t","\"","]">>>> >>,
    << <<K_to_use, <<"[","]">>>> >> }
ServerHeaderInputs ==
  { secret \o toUse : secret \in SecretHeaderSamples, toUse \in ToUseHeaderSamples }
  \cup { << <<HeaderNameOf(NameWords[5]), <<"x">>>> >> }
ServerEnvInputs ==
  { Undefined,
    Obj(<< <<K_TO_USE, Str(<<"[","\"","a","d","d","\"","]">>)>> >>),
    Obj(<< <<K_DEFAULT_TOOLS, Str(<<"[","\"","a","p","i","_","g","e","t","\"",",","\"","a","d","d","\"","]">>)>> >>),
    Obj(<< <<K_API_TOKEN, Str(<<"e">>)>> >>) }

InitServer ==
  /\ headers \in ServerHeaderInputs
  /\ env \in ServerEnvInputs
  /\ input = <<>>
  /\ Idle

\* MyMCP.init(): the example tools go to the registry, the backward
\* compatibility tools to the server
MyMCP_init ==
  /\ server = <<>>
  /\ calls < MaxCalls
  /\ calls' = calls + 1
  /\ called' = "init"
  /\ args' = <<>>
  /\ before' = toolRegistry
  /\ toolRegistry' = registerTools(toolRegistry, exampleTools)
  /\ server' = setupBackwardCompatibilityTools(server)
  /\ ret' = Returned(Undefined)
  /\ console' = [i \in DOMAIN exampleTools |->
                   ConsoleLine("log", "Registered tool", exampleTools[i].name, <<>>)]
  /\ filterLog' = <<>>
  /\ evaluated' = 0
  /\ UNCHANGED requestVars

\* the rest of logRequestConfiguration, from the outcome of resolveConfig, the
\* summary and the result of filterTools on
LogOutcome(configContext, summary, toolFilter, key) ==
  /\ calls < MaxCalls
  /\ calls' = calls + 1
  /\ called' = "logRequestConfiguration"
  /\ args' = [headers |-> headers, env |-> env]
  /\ before' = toolRegistry
  /\ ret' = Returned(Undefined)
  /\ IF configContext.threw
     THEN /\ console' = <<ConsoleLine("error", "Error logging configuration", <<>>,
                                      configContext.value)>>
          /\ UNCHANGED <<toolRegistry, filterLog, evaluated>>
     ELSE /\ console' =
               <<ConsoleLine("info", "=== Request Configuration ===", <<>>, <<>>),
                 ConsoleLine("info", "Configuration summary", <<>>, summary),
                 ConsoleLine("info", "Tool filtering", <<>>,
                   [available |-> NatToDigits(toolFilter.value.summary.included)
                                    \o <<"/">>
                                    \o NatToDigits(toolFilter.value.summary.total),
                    tools     |-> [i \in DOMAIN toolFilter.value.tools |->
                                     toolFilter.value.tools[i].name],
                    excluded  |-> toolFilter.value.excluded]),
                 ConsoleLine("info", "=== End Configuration ===", <<>>, <<>>)>>
          /\ toolRegistry' = toolFilter.registry
          /\ evaluated' = toolFilter.evaluated
          /\ filterLog' =
               IF key \in DOMAIN filterLog
               THEN [filterLog EXCEPT ![key].count = @ + 1]
               ELSE Put(filterLog, key, [first |-> toolFilter.value, count |-> 1])
  /\ UNCHANGED <<requestVars, server>>

\* logRequestConfiguration from the outcome of resolveConfig on
LogResolved(configContext) ==
  LogOutcome(configContext,
             getConfigSummary(configContext.value, resolvedKeys(headers, env)),
             filterTools(toolRegistry, configContext.value.resolved, NoFilter),
             <<configContext.value.resolved, NoFilter>>)

\* logRequestConfiguration(headers, env): what it hands to the logger, or the
\* error it catches
LogRequestConfiguration == LogResolved(resolveConfig(headers, env))

NextServer ==
  \/ MyMCP_init
  \/ LogRequestConfiguration

SpecServer == InitServer /\ [][NextServer]_vars

(***************************************************************************)
(* The layers and the result of the request at hand                        *)
(***************************************************************************)
\* const headerConfig = extractHeaderConfig(headers)
HeaderLayer == extractHeaderConfig(headers)
\* const envConfig = extractEnvConfig(env)
EnvLayer == extractEnvConfig(env)

\* resolveConfig was called and returned its context
IsResolved == called = "resolveConfig" /\ ~ret.threw
Resolved   == ret.value.resolved
Sources    == ret.value.sources

\* the layer holds key with a value other than undefined
Defines(layer, key) == key \in DOMAIN layer /\ layer[key] # Undefined

\* the raw header of that name, and its value
HasHeader(name)   == \E i \in DOMAIN headers : headers[i][1] = name
HeaderValue(name) == headers[CHOOSE i \in DOMAIN headers : headers[i][1] = name][2]

\* the variables of the environment argument, none when it is no object
EnvEntries == IF env.t = "object" THEN env.v ELSE <<>>
HasEnvString(name) ==
  \E i \in DOMAIN EnvEntries : EnvEntries[i][1] = name /\ EnvEntries[i][2].t = "string"
EnvValue(name) ==
  EnvEntries[CHOOSE i \in DOMAIN EnvEntries : EnvEntries[i][1] = name][2].v

Text_a   == <<"[","\"","a","\"","]">>
Text_bc  == <<"[","\"","b","\"",",","\"","c","\"","]">>
List_a   == Arr(<<Str(<<"a">>)>>)
List_bc  == Arr(<<Str(<<"b">>), Str(<<"c">>)>>)

(***************************************************************************)
(* Claims on the priority resolution                                       *)
(***************************************************************************)

\* C1: every key other than availableTools that the header layer defines is
\* resolved to the header value and attributed to 'header', whatever the
\* environment and the defaults hold for it.
C1_HeaderWins ==
  IsResolved =>
    LET h == HeaderLayer
    IN \A k \in (DOMAIN h) \ {K_availableTools} :
         Defines(h, k) =>
           /\ k \in DOMAIN Resolved
           /\ Resolved[k] = h[k]
           /\ Sources[k] = "header"

\* a falsy header value for a key the environment and the defaults also hold
C1_Witness ==
  /\ IsResolved
  /\ Defines(HeaderLayer, K_timeout) /\ ~Truthy(HeaderLayer[K_timeout])
  /\ Defines(EnvLayer, K_timeout) /\ EnvLayer[K_timeout] # HeaderLayer[K_timeout]
  /\ Defines(getDefaultConfig, K_timeout)
  /\ Resolved[K_timeout] = HeaderLayer[K_timeout]

\* C2: a key other than availableTools that the header layer does not define
\* is resolved to the environment value and 'env' when the environment layer
\* defines it, otherwise to the default value and 'default' when the defaults
\* define it.
C2_Fallthrough ==
  IsResolved =>
    LET h == HeaderLayer
        e == EnvLayer
        d == getDefaultConfig
    IN \A k \in ((DOMAIN e) \cup (DOMAIN d)) \ {K_availableTools} :
         ~Defines(h, k) =>
           IF Defines(e, k)
           THEN /\ k \in DOMAIN Resolved
                /\ Resolved[k] = e[k]
                /\ Sources[k] = "env"
           ELSE Defines(d, k) =>
                  /\ k \in DOMAIN Resolved
                  /\ Resolved[k] = d[k]
                  /\ Sources[k] = "default"

\* one key taken from the environment over its default, another from the defaults
C2_Witness ==
  /\ IsResolved
  /\ ~Defines(HeaderLayer, K_timeout) /\ Defines(EnvLayer, K_timeout)
  /\ Sources[K_timeout] = "env" /\ Resolved[K_timeout] # getDefaultConfig[K_timeout]
  /\ Sources[K_retries] = "default"

\* C3: availableTools is the first that exists of: the to-use array of the
\* headers (also when empty), the environment defaultTools array, the
\* environment availableTools array, the defaults' availableTools array, the
\* empty list; to-use ["a"] beats DEFAULT_TOOLS ["b","c"], which is the result
\* when no to-use header is sent.
C3_ToolListChain ==
  IsResolved =>
    /\ LET h == HeaderLayer
           e == EnvLayer
           d == getDefaultConfig
       IN Resolved[K_availableTools] =
            IF IsArray(Get(h, K_to_use)) THEN h[K_to_use]
            ELSE IF IsArray(Get(e, K_defaultTools)) THEN e[K_defaultTools]
            ELSE IF IsArray(Get(e, K_availableTools)) THEN e[K_availableTools]
            ELSE IF IsArray(Get(d, K_availableTools)) THEN d[K_availableTools]
            ELSE Arr(<<>>)
    /\ (HasEnvString(K_DEFAULT_TOOLS) /\ EnvValue(K_DEFAULT_TOOLS) = Text_bc) =>
         /\ (HasHeader(K_to_use) /\ HeaderValue(K_to_use) = Text_a) =>
              Resolved[K_availableTools] = List_a
         /\ (HasHeader(K_to_use) /\ HeaderValue(K_to_use) = <<"[", "]">>) =>
              Resolved[K_availableTools] = Arr(<<>>)
         /\ ~HasHeader(K_to_use) => Resolved[K_availableTools] = List_bc

\* an empty to-use array sent to a deployment whose DEFAULT_TOOLS is ["b","c"]
C3_Witness ==
  /\ IsResolved
  /\ HasHeader(K_to_use) /\ HeaderValue(K_to_use) = <<"[", "]">>
  /\ HasEnvString(K_DEFAULT_TOOLS) /\ EnvValue(K_DEFAULT_TOOLS) = Text_bc
  /\ Resolved[K_availableTools] = Arr(<<>>)

\* C4: sources.availableTools names the layer whose value is in
\* resolved.availableTools: 'header' exactly when it is the to-use array, 'env'
\* exactly when it is the environment defaultTools or availableTools array,
\* 'default' exactly when it is the defaults' availableTools array.
C4_ToolListSource ==
  IsResolved =>
    LET h      == HeaderLayer
        e      == EnvLayer
        toUse  == IsArray(Get(h, K_to_use))
        envDef == IsArray(Get(e, K_defaultTools))
        envAv  == IsArray(Get(e, K_availableTools))
        src    == Sources[K_availableTools]
        tools  == Resolved[K_availableTools]
    IN /\ src \in {"header", "env", "default"}
       /\ src = "header" <=> toUse
       /\ src = "env" <=> (~toUse /\ (envDef \/ envAv))
       /\ src = "header" => tools = h[K_to_use]
       /\ src = "env" => tools = IF envDef THEN e[K_defaultTools] ELSE e[K_availableTools]
       /\ src = "default" => tools = getDefaultConfig[K_availableTools]

\* the list comes from AVAILABLE_TOOLS alone
C4_Witness ==
  /\ IsResolved
  /\ ~IsArray(Get(HeaderLayer, K_to_use))
  /\ ~IsArray(Get(EnvLayer, K_defaultTools))
  /\ IsArray(Get(EnvLayer, K_availableTools))
  /\ Sources[K_availableTools] = "env"

\* the value and the attribution the three layers h, e, d give to a key by priority
PriorityValue(h, e, d, k) ==
  IF Defines(h, k) THEN h[k]
  ELSE IF Defines(e, k) THEN e[k]
  ELSE Get(d, k)

PrioritySource(h, e, d, k) ==
  IF Defines(h, k) THEN "header"
  ELSE IF Defines(e, k) THEN "env"
  ELSE "default"

\* C5 as stated: every key of the resolved configuration, availableTools
\* included, holds the value of the highest-priority layer that defines it and
\* is attributed to that layer.
C5_AllKeysByPriority ==
  IsResolved =>
    LET h == HeaderLayer
        e == EnvLayer
        d == getDefaultConfig
    IN \A k \in DOMAIN Resolved :
         /\ Resolved[k] = PriorityValue(h, e, d, k)
         /\ Sources[k] = PrioritySource(h, e, d, k)

\* C5, amended: every key of the resolved configuration other than
\* availableTools holds the value of the highest-priority layer that defines
\* it and is attributed to that layer, and the resolved keys are availableTools
\* and the keys some layer defines.
C5_OtherKeysByPriority ==
  IsResolved =>
    LET h == HeaderLayer
        e == EnvLayer
        d == getDefaultConfig
    IN /\ DOMAIN Resolved = DOMAIN Sources
       /\ DOMAIN Resolved =
            {K_availableTools} \cup
            { k \in (DOMAIN h) \cup (DOMAIN e) \cup (DOMAIN d) :
                Defines(h, k) \/ Defines(e, k) \/ Defines(d, k) }
       /\ \A k \in (DOMAIN Resolved) \ {K_availableTools} :
            /\ Resolved[k] = PriorityValue(h, e, d, k)
            /\ Sources[k] = PrioritySource(h, e, d, k)

\* a header available-tools is sent and all three layers supply keys
C5_Witness ==
  /\ IsResolved
  /\ Defines(HeaderLayer, K_availableTools)
  /\ \E k \in DOMAIN Resolved : k # K_availableTools /\ Sources[k] = "header"
  /\ \E k \in DOMAIN Resolved : k # K_availableTools /\ Sources[k] = "env"
  /\ \E k \in DOMAIN Resolved : k # K_availableTools /\ Sources[k] = "default"

\* C6: after resolveConfig, resolved.availableTools is a list, also when the
\* header available-tools or the variable AVAILABLE_TOOLS carries a non-list.
C6_ToolListIsList ==
  IsResolved => K_availableTools \in DOMAIN Resolved /\ IsArray(Resolved[K_availableTools])

\* neither available-tools nor AVAILABLE_TOOLS is a list
C6_Witness ==
  /\ IsResolved
  /\ Defines(HeaderLayer, K_availableTools) /\ ~IsArray(HeaderLayer[K_availableTools])
  /\ Defines(EnvLayer, K_availableTools) /\ ~IsArray(EnvLayer[K_availableTools])

(***************************************************************************)
(* Claims on the key normalizer and on the extraction of the layers        *)
(***************************************************************************)

\* C7: for every name made of words, the header key (lower-case words joined
\* by '-') and the environment key (upper-case words joined by '_') have the
\* same canonical key, so that the header value overrides the environment
\* value of that name in resolveConfig.
C7_SameCanonicalKey ==
  IsResolved =>
    \A i \in DOMAIN NameWords :
      LET hn == HeaderNameOf(NameWords[i])
          en == EnvNameOf(NameWords[i])
          hk == kebabToCamelCase(hn)
          ek == upperCaseToCamelCase(en)
      IN (HasHeader(hn) /\ HasEnvString(en)) =>
           /\ hk = ek
           /\ ek \in DOMAIN Resolved
           /\ Sources[ek] = "header"

\* C8: for every to-use header value, extractHeaderConfig stores a list of
\* tool names under the un-normalized key 'to-use', never a scalar or an object.
C8_ToUseIsList ==
  (called = "extractHeaderConfig" /\ HasHeader(K_to_use)) =>
    /\ ~ret.threw
    /\ K_to_use \in DOMAIN ret.value
    /\ kebabToCamelCase(K_to_use) \notin DOMAIN ret.value
    /\ IsArray(Get(ret.value, K_to_use))
    /\ \A j \in DOMAIN Get(ret.value, K_to_use).v :
         Get(ret.value, K_to_use).v[j].t = "string"

\* C9: for every string variable whose name ends in _TOOLS, extractEnvConfig
\* stores a list under the normalized key: the structured parse of the value
\* when it parses, otherwise the trimmed comma-separated items in order; it
\* never throws.
C9_ToolsVarsAreLists ==
  called = "extractEnvConfig" =>
    /\ ~ret.threw
    /\ \A i \in DOMAIN EnvEntries :
         LET name   == EnvEntries[i][1]
             value  == EnvEntries[i][2]
             key    == upperCaseToCamelCase(name)
             parsed == JSONparse(value.v)
             items  == split(value.v, ",")
         IN (value.t = "string" /\ endsWith(name, K_TOOLS_suffix)) =>
              /\ IsArray(Get(ret.value, key))
              /\ parsed.ok => Get(ret.value, key) = parsed.val
              /\ ~parsed.ok =>
                   Get(ret.value, key) = Arr([j \in 1..Len(items) |-> Str(trim(items[j]))])

\* C10: a to-use header that is not valid JSON makes extractHeaderConfig
\* return to-use = [] without throwing, and resolveConfig then returns
\* availableTools = [] attributed to 'header', also when DEFAULT_TOOLS is a
\* non-empty list.
C10_MalformedToUse ==
  (HasHeader(K_to_use) /\ ~JSONparse(HeaderValue(K_to_use)).ok) =>
    /\ called = "extractHeaderConfig" =>
         ~ret.threw /\ Get(ret.value, K_to_use) = Arr(<<>>)
    /\ IsResolved =>
         /\ Get(ret.value.raw.headers, K_to_use) = Arr(<<>>)
         /\ Resolved[K_availableTools] = Arr(<<>>)
         /\ Sources[K_availableTools] = "header"

\* a malformed to-use header sent to a deployment whose DEFAULT_TOOLS is ["b","c"]
C10_Witness ==
  /\ IsResolved
  /\ HasHeader(K_to_use) /\ ~JSONparse(HeaderValue(K_to_use)).ok
  /\ Get(EnvLayer, K_defaultTools) = List_bc
  /\ Resolved[K_availableTools] = Arr(<<>>)

\* C11: whenever the to-use header or a *_TOOLS variable fails structured
\* parsing during resolveConfig, the validation.warnings of the result hold a
\* diagnostic for it, that is a warning besides the one about the empty tool
\* list.
C11_DiagnosticInWarnings ==
  IsResolved =>
    \A j \in DOMAIN console :
      console[j].level = "warn" =>
        \E i \in DOMAIN ret.value.validation.warnings :
          ret.value.validation.warnings[i] # NoToolsWarning

\* C12: every resolveConfig result has validation.isValid = true and no
\* validation.errors, and its validation.warnings hold the 'No tools
\* available' warning exactly when resolved.availableTools is empty.
C12_Validation ==
  IsResolved =>
    LET validation == ret.value.validation
    IN /\ validation.isValid = TRUE
       /\ validation.errors = <<>>
       /\ (\E i \in DOMAIN validation.warnings :
             validation.warnings[i] = NoToolsWarning)
          <=> Length(Resolved[K_availableTools]) = 0

\* a resolution with an empty tool list, which carries the warning
C12_Witness ==
  /\ IsResolved
  /\ Resolved[K_availableTools] = Arr(<<>>)
  /\ ret.value.validation.warnings = <<NoToolsWarning>>

\* C13: resolveConfig returns a resolution context and never raises, for
\* every set of headers and every environment argument.
C13_NeverRaises ==
  called = "resolveConfig" => ~ret.threw

\* C14: tryParseValue never throws; it returns a boolean for exactly 'true'
\* and 'false', a number for an unsigned integer-or-decimal numeral that
\* parses (one without a superfluous leading zero), the parsed value for a
\* string that begins with '{', '[' or '"' and parses as JSON, and the input
\* string unchanged in every other case, among them the strings of these
\* shapes that fail to parse.
C14_Coercion ==
  called = "tryParseValue" =>
    LET parsed  == JSONparse(input)
        padded  == Len(input) > 1 /\ input[1] = "0" /\ IsDigit(input[2])
        opening == Len(input) > 0 /\ input[1] \in {"{", "[", "\""}
    IN /\ ~ret.threw
       /\ IF input = <<"t","r","u","e">> THEN ret.value = Bool(TRUE)
          ELSE IF input = <<"f","a","l","s","e">> THEN ret.value = Bool(FALSE)
          ELSE IF MatchesNumeral(input)
          THEN IF padded THEN ret.value = Str(input)
               ELSE ret.value.t = "number" /\ ret.value = parsed.val
          ELSE IF opening /\ parsed.ok THEN ret.value = parsed.val
          ELSE ret.value = Str(input)

\* a numeral with a leading zero: it matches the pattern, fails to parse and
\* comes back unchanged
C14_Witness ==
  /\ called = "tryParseValue"
  /\ input = <<"0","0","7",".","5">>
  /\ ret.value = Str(input)

(***************************************************************************)
(* The registry calls of a run                                             *)
(***************************************************************************)
\* the names registered in a registry, and the registrations of one name
RegisteredNames(registry) == { registry.tools[i][1] : i \in DOMAIN registry.tools }
RegistrationsOf(registry, name) ==
  { i \in DOMAIN registry.tools : registry.tools[i][1] = name }
CacheKeys(registry) == DOMAIN registry.filteredCache

\* the last call was a filterTools call that missed the cache
ColdFilter ==
  /\ called = "filterTools"
  /\ createFilterCacheKey(args.config, args.options) \notin CacheKeys(before)

\* C15: after registerTool is called for a name, also one that is already
\* registered, the registry holds exactly one registration for that name,
\* with the tool definition and the options of this last call, and the filter
\* cache is empty after the call.
C15_ReRegister ==
  called = "registerTool" =>
    LET name == args.tool.name
        at   == RegistrationsOf(toolRegistry, name)
        reg  == toolRegistry.tools[CHOOSE i \in at : TRUE][2]
    IN /\ Cardinality(at) = 1
       /\ reg.tool = args.tool
       /\ reg.enabledByDefault =
            (IF args.options.enabledByDefault = Undefined THEN Bool(TRUE)
             ELSE args.options.enabledByDefault)
       /\ reg.conditions =
            (IF args.options.conditions = Undefined THEN Arr(<<>>)
             ELSE args.options.conditions)
       /\ CacheKeys(toolRegistry) = {}
       /\ RegisteredNames(toolRegistry) = RegisteredNames(before) \cup {name}

\* a second registration of a name, with another definition, on a registry
\* whose cache held a filtered list
C15_Witness ==
  /\ called = "registerTool"
  /\ MapHas(before.tools, args.tool.name)
  /\ getTool(before, args.tool.name) # args.tool
  /\ CacheKeys(before) # {}
  /\ getTool(toolRegistry, args.tool.name) = args.tool

\* C16: after registerTools(list) each listed name has exactly one
\* registration, which holds the last listed tool of that name with
\* enabledByDefault = true and no conditions, whatever its earlier
\* registration was; the other names keep their registrations, a non-empty
\* list leaves the filter cache empty, and the registry is the one that
\* registerTool calls without options, one per element in list order, give.
C16_RegisterMany ==
  called = "registerTools" =>
    LET list == args.tools
    IN /\ \A i \in DOMAIN list :
            LET name == list[i].name
                last == CHOOSE j \in DOMAIN list :
                          /\ list[j].name = name
                          /\ \A k \in DOMAIN list : list[k].name = name => k <= j
                at   == RegistrationsOf(toolRegistry, name)
            IN /\ Cardinality(at) = 1
               /\ \A n \in at :
                    toolRegistry.tools[n][2] =
                      [tool |-> list[last], enabledByDefault |-> Bool(TRUE),
                       conditions |-> Arr(<<>>)]
       /\ \A n \in DOMAIN before.tools :
            (\A i \in DOMAIN list : list[i].name # before.tools[n][1]) =>
               /\ n \in DOMAIN toolRegistry.tools
               /\ toolRegistry.tools[n] = before.tools[n]
       /\ RegisteredNames(toolRegistry) =
            RegisteredNames(before) \cup { list[i].name : i \in DOMAIN list }
       /\ list # <<>> => CacheKeys(toolRegistry) = {}
       /\ LET step(r, i) == IF i <= Len(list)
                            THEN registerTool(r, list[i], NoOptions) ELSE r
          IN Len(list) <= 3 =>
               toolRegistry = step(step(step(before, 1), 2), 3)

\* a list that names a tool twice, registered over a disabled registration of
\* that name
C16_Witness ==
  /\ called = "registerTools"
  /\ \E i, j \in DOMAIN args.tools : i < j /\ args.tools[i].name = args.tools[j].name
  /\ \E n \in DOMAIN before.tools :
       /\ before.tools[n][1] = Name_a
       /\ before.tools[n][2].enabledByDefault = Bool(FALSE)
  /\ \E n \in DOMAIN toolRegistry.tools :
       /\ toolRegistry.tools[n][1] = Name_a
       /\ toolRegistry.tools[n][2].enabledByDefault = Bool(TRUE)

\* C17: after clearRegistry the tool map and the filter cache are empty:
\* getAllTools then returns no tools, isToolRegistered is false for every
\* name, and a filterTools call then misses the cache and reports total = 0.
C17_Clear ==
  called = "clearRegistry" =>
    /\ toolRegistry.tools = <<>>
    /\ CacheKeys(toolRegistry) = {}
    /\ getAllTools(toolRegistry) = <<>>
    /\ \A name \in NameSamples : isToolRegistered(toolRegistry, name) = Bool(FALSE)
    /\ \A config \in ConfigSamples, options \in FilterSamples :
         LET r == filterTools(toolRegistry, config, options)
         IN /\ r.value.summary.total = 0
            /\ r.value.tools = <<>>
            /\ r.evaluated = 0
            /\ CacheKeys(r.registry) = {createFilterCacheKey(config, options)}

\* clearRegistry called on a registry that held a tool and a cached list
C17_Witness ==
  /\ called = "clearRegistry"
  /\ before.tools # <<>>
  /\ CacheKeys(before) # {}
  /\ toolRegistry.tools = <<>>

\* C18: getTool, isToolRegistered, getAllTools and getRegistryStats leave the
\* tool map and the filter cache as they were and do not raise; getTool
\* returns undefined and isToolRegistered false for a name that is not
\* registered (and the tool, respectively true, for one that is).
C18_Lookups ==
  called \in {"getTool", "isToolRegistered", "getAllTools", "getRegistryStats"} =>
    /\ toolRegistry = before
    /\ ~ret.threw
    /\ called = "getTool" =>
         IF args.name \in RegisteredNames(before)
         THEN \E n \in DOMAIN before.tools :
                before.tools[n][1] = args.name /\ ret.value = before.tools[n][2].tool
         ELSE ret.value = Undefined
    /\ called = "isToolRegistered" =>
         ret.value = Bool(args.name \in RegisteredNames(before))

\* lookups of a name that is not registered, on a registry that holds
\* another tool and a cached list
C18_Witness ==
  /\ called \in {"getTool", "isToolRegistered"}
  /\ args.name \notin RegisteredNames(before)
  /\ before.tools # <<>>
  /\ CacheKeys(before) # {}
  /\ ret.value \in {Undefined, Bool(FALSE)}

\* C19: a filterTools call that repeats the configuration and the options of
\* an earlier call, with no registration and no clearRegistry in between,
\* returns the tools list and the summary counts of that earlier call and
\* evaluates no tool, also when the list is empty.
C19_Repeat ==
  LET key == <<args.config, args.options>>
  IN (called = "filterTools" /\ key \in DOMAIN filterLog /\ filterLog[key].count >= 2) =>
       /\ ret.value.tools = filterLog[key].first.tools
       /\ ret.value.summary = filterLog[key].first.summary
       /\ evaluated = 0
       /\ toolRegistry = before

\* a repeated call on a registry that holds a tool, whose first result was
\* the empty list
C19_Witness ==
  /\ called = "filterTools"
  /\ <<args.config, args.options>> \in DOMAIN filterLog
  /\ filterLog[<<args.config, args.options>>].count >= 2
  /\ filterLog[<<args.config, args.options>>].first.tools = <<>>
  /\ filterLog[<<args.config, args.options>>].first.excluded # <<>>
  /\ before.tools # <<>>

\* C20: on a cache miss filterTools puts every registered name exactly once
\* in tools or in excluded, and summary is total = size of the registry,
\* included = length of tools, excluded = number of exclusion entries, with
\* included + excluded = total; a registry of a (enabled) and b (disabled by
\* default), filtered without options and without a requested list, gives
\* tools = [a], excluded = [{b, 'Tool is disabled by default'}] and summary
\* {2, 1, 1}.
C20_Partition ==
  ColdFilter =>
    LET result   == ret.value
        toolsIn  == { result.tools[i].name : i \in DOMAIN result.tools }
        toolsOut == { result.excluded[i].tool : i \in DOMAIN result.excluded }
    IN /\ toolsIn \cup toolsOut = RegisteredNames(before)
       /\ toolsIn \cap toolsOut = {}
       /\ Cardinality(toolsIn) = Len(result.tools)
       /\ Cardinality(toolsOut) = Len(result.excluded)
       /\ result.summary = [total    |-> Len(before.tools),
                            included |-> Len(result.tools),
                            excluded |-> Len(result.excluded)]
       /\ result.summary.included + result.summary.excluded = result.summary.total
       /\ \A a \in ToolSamples, b \in ToolSamples :
            ( /\ a.name = Name_a /\ b.name = Name_b
              /\ before.tools =
                   << <<Name_a, [tool |-> a, enabledByDefault |-> Bool(TRUE),
                                 conditions |-> Arr(<<>>)]>>,
                      <<Name_b, [tool |-> b, enabledByDefault |-> Bool(FALSE),
                                 conditions |-> Arr(<<>>)]>> >>
              /\ args.options = NoFilter
              /\ Get(args.config, K_availableTools) = Arr(<<>>) ) =>
            /\ result.tools = <<a>>
            /\ result.excluded =
                 <<[tool |-> Name_b, reason |-> Reason("Tool is disabled by default", "")]>>
            /\ result.summary = [total |-> 2, included |-> 1, excluded |-> 1]

\* the example: a enabled and b disabled by default, filtered without options
C20_Witness ==
  /\ ColdFilter
  /\ Len(before.tools) = 2
  /\ before.tools[1][1] = Name_a /\ before.tools[1][2].enabledByDefault = Bool(TRUE)
  /\ before.tools[2][1] = Name_b /\ before.tools[2][2].enabledByDefault = Bool(FALSE)
  /\ args.options = NoFilter
  /\ Len(ret.value.tools) = 1 /\ Len(ret.value.excluded) = 1

\* C23: on a cache hit filterTools returns an empty excluded list and the
\* summary total = size of the registry, included = length of the cached
\* list, excluded = total - included, and these counts are the ones returned
\* by the calls made under the same cache key since the last change of the
\* registry, the cold computation among them.
C23_HitSummary ==
  (called = "filterTools" /\ ~ColdFilter) =>
    LET key    == createFilterCacheKey(args.config, args.options)
        cached == before.filteredCache[key]
    IN /\ ret.value.excluded = <<>>
       /\ ret.value.tools = cached
       /\ ret.value.summary = [total    |-> Len(toolRegistry.tools),
                               included |-> Len(cached),
                               excluded |-> Len(toolRegistry.tools) - Len(cached)]
       /\ \A a \in DOMAIN filterLog :
            createFilterCacheKey(a[1], a[2]) = key =>
              ret.value.summary = filterLog[a].first.summary

\* a hit on a key whose cold computation excluded a tool with a reason
C23_Witness ==
  /\ called = "filterTools" /\ ~ColdFilter
  /\ \E a \in DOMAIN filterLog :
       /\ createFilterCacheKey(a[1], a[2]) =
            createFilterCacheKey(args.config, args.options)
       /\ filterLog[a].first.excluded # <<>>
  /\ ret.value.summary.excluded > 0

\* the conditions registered for a tool name, as a list
ConditionsOf(registry, name) ==
  IF MapHas(registry.tools, name) /\ Truthy(MapGet(registry.tools, name).conditions)
  THEN MapGet(registry.tools, name).conditions.v ELSE <<>>

\* C24: every tool in the list returned by filterTools(config, options) has
\* all of its registered conditions true for the config of that call.
C24_ConditionsHold ==
  called = "filterTools" =>
    \A i \in DOMAIN ret.value.tools :
      LET conditions == ConditionsOf(before, ret.value.tools[i].name)
      IN \A j \in DOMAIN conditions : evaluateCondition(conditions[j], args.config)

\* no registration carries a condition
NoConditions(registry) ==
  \A i \in DOMAIN registry.tools : ConditionsOf(registry, registry.tools[i][1]) = <<>>

\* C30: when no registered tool carries conditions, filterTools(config,
\* options) returns the tools list and the summary that a computation with an
\* empty cache returns for the same arguments on the current registry.
C30_SameAsCold ==
  (called = "filterTools" /\ NoConditions(before)) =>
    LET cold == computeFilter(before, args.config, args.options)
    IN /\ ret.value.tools = cold.tools
       /\ ret.value.summary = cold.summary

\* C27: with no to-use header, a variable TO_USE that holds a JSON array
\* determines resolved.availableTools, attributed to 'env'.
C27_EnvToUse ==
  LET parsed == JSONparse(EnvValue(K_TO_USE))
  IN (/\ IsResolved /\ ~HasHeader(K_to_use)
      /\ HasEnvString(K_TO_USE) /\ parsed.ok /\ IsArray(parsed.val)) =>
       /\ Resolved[K_availableTools] = parsed.val
       /\ Sources[K_availableTools] = "env"

(***************************************************************************)
(* Eligibility of a registered tool, as the filter is documented           *)
(***************************************************************************)
\* elements of a list value, none for an absent list
Elements(list) == IF IsArray(list) THEN Range(list.v) ELSE {}

\* the tool passes the enablement, include/exclude, category, tag,
\* authentication and condition checks
Eligible(registration, config, options) ==
  LET tool       == registration.tool
      category   == MetaField(tool, "category")
      tags       == MetaField(tool, "tags")
      conditions == IF IsArray(registration.conditions)
                    THEN registration.conditions.v ELSE <<>>
  IN /\ registration.enabledByDefault = Bool(TRUE)
     /\ options.include = Undefined \/ Str(tool.name) \in Elements(options.include)
     /\ options.exclude = Undefined \/ Str(tool.name) \notin Elements(options.exclude)
     /\ \/ options.categories = Undefined
        \/ category # Undefined /\ category \in Elements(options.categories)
     /\ Elements(options.requiredTags) \subseteq Elements(tags)
     /\ MetaField(tool, "requiresAuth") # Bool(TRUE)
          \/ options.includeAuthRequired # Bool(FALSE)
     /\ \A j \in DOMAIN conditions : evaluateCondition(conditions[j], config)

\* the requested tool names of a configuration
Requested(config) == Elements(Get(config, K_availableTools))

\* the places in the registry of the tools that satisfy a predicate, in order
Places(registry, Keep(_)) ==
  SelectSeq([i \in DOMAIN registry.tools |-> i], Keep)

\* C21: when availableTools is non-empty, a filterTools call that misses the
\* cache returns exactly the eligible tools whose names are in availableTools,
\* in registry order; every eligible tool that is not in the list gets one
\* exclusion entry, with the reason 'Not in requested tools list'; names of
\* availableTools that are not registered or not eligible add nothing.
C21_Narrowing ==
  (ColdFilter /\ Requested(args.config) # {}) =>
    LET regs     == before.tools
        ok(i)    == Eligible(regs[i][2], args.config, args.options)
        kept     == Places(before, LAMBDA i : ok(i) /\ Str(regs[i][1]) \in Requested(args.config))
        narrowed == { regs[i][1] : i \in { n \in DOMAIN regs :
                        ok(n) /\ Str(regs[n][1]) \notin Requested(args.config) } }
        rejected == { regs[i][1] : i \in { n \in DOMAIN regs : ~ok(n) } }
        out      == ret.value.excluded
        notRequested == Reason("Not in requested tools list", "")
    IN /\ ret.value.tools = [k \in DOMAIN kept |-> regs[kept[k]][2].tool]
       /\ \A name \in narrowed :
            Cardinality({ k \in DOMAIN out : out[k].tool = name }) = 1
       /\ { out[k].tool : k \in { n \in DOMAIN out : out[n].reason = notRequested } }
            = narrowed
       /\ { out[k].tool : k \in DOMAIN out } = narrowed \cup rejected
       /\ Len(out) = Cardinality(narrowed) + Cardinality(rejected)

\* the list names a, and the registry holds a and an eligible b, which is
\* dropped with that reason
C21_Witness ==
  /\ ColdFilter
  /\ Requested(args.config) = {Str(Name_a)}
  /\ Len(ret.value.tools) = 1 /\ ret.value.tools[1].name = Name_a
  /\ ret.value.excluded =
       <<[tool |-> Name_b, reason |-> Reason("Not in requested tools list", "")]>>

C29_Inclusion ==
  ColdFilter =>
    \A i \in DOMAIN before.tools :
      LET registration == before.tools[i][2]
      IN (\E k \in DOMAIN ret.value.tools : ret.value.tools[k] = registration.tool)
         <=> /\ Eligible(registration, args.config, args.options)
             /\ \/ Requested(args.config) = {}
                \/ Str(registration.tool.name) \in Requested(args.config)

\* a call with an include and an exclude list that returns one tool of two
C29_Witness ==
  /\ ColdFilter
  /\ args.options.include # Undefined /\ args.options.exclude # Undefined
  /\ Len(before.tools) = 2
  /\ Len(ret.value.tools) = 1
  /\ \E k \in DOMAIN ret.value.excluded :
       ret.value.excluded[k].reason = Reason("In exclude list", "")

(***************************************************************************)
(* The server and the request log                                          *)
(***************************************************************************)
\* the request has been logged, on a registry that holds tools
Logged ==
  /\ called = "logRequestConfiguration"
  /\ Len(console) = 4
  /\ before.tools # <<>>

ToolNames(tools) == { tools[i].name : i \in DOMAIN tools }

\* C25: the tools the MCP server offers for a request are the tools that
\* filterTools returns for the resolved configuration of that request.
C25_ServerOffersFiltered ==
  (Logged /\ server # <<>>) =>
    LET toolFilter == filterTools(before, resolveConfig(headers, env).value.resolved,
                                  NoFilter).value
    IN Range(server) = ToolNames(toolFilter.tools)

\* the environment holds a variable that names a tool list
HasToolListVar ==
  \E i \in DOMAIN EnvEntries :
    \/ EnvEntries[i][1] = K_TO_USE
    \/ endsWith(EnvEntries[i][1], K_TOOLS_suffix)

\* C26: with no to-use header and no tool-list variable, filterTools on the
\* resolved configuration returns all the tools registered at startup.
C26_AllByDefault ==
  (Logged /\ ~HasHeader(K_to_use) /\ ~HasToolListVar) =>
    LET toolFilter == filterTools(before, resolveConfig(headers, env).value.resolved,
                                  NoFilter).value
    IN /\ toolFilter.tools = getAllTools(before)
       /\ ToolNames(toolFilter.tools) = ToolNames(exampleTools)

\* a key that bears a secret
SecretKey(key) ==
  \E word \in {<<"t","o","k","e","n">>, <<"s","e","c","r","e","t">>, K_pass} : stringIncludes(toLowerCase(key), word)

\* C28: the summary of a resolved configuration does not depend on the value
\* of a key whose name contains 'token', 'secret' or 'pass'.
C28_SummaryHidesSecrets ==
  Logged =>
    LET context == resolveConfig(headers, env).value
        keys    == resolvedKeys(headers, env)
    IN \A key \in DOMAIN context.resolved :
         SecretKey(key) =>
           \A other \in {Str(<<"s">>), Str(<<"x">>), Str(<<"e">>)} :
             getConfigSummary([context EXCEPT !.resolved[key] = other], keys)
               = getConfigSummary(context, keys)

(***************************************************************************)
(* The filter cache over a run of registry calls                           *)
(***************************************************************************)
\* the number of filterTools calls since the last change of the registry
RECURSIVE CallsLogged(_)
CallsLogged(keys) ==
  IF keys = {} THEN 0
  ELSE LET k == CHOOSE k \in keys : TRUE
       IN filterLog[k].count + CallsLogged(keys \ {k})

\* the call changed the registrations
RegistrationChange ==
  \/ called \in {"registerTool", "clearRegistry"}
  \/ called = "registerTools" /\ args.tools # <<>>

\* C31: registerTool and clearRegistry leave the filter cache empty, the first
\* filterTools call after a registration change is a cold computation, and
\* every tool of a cached list is the definition registered for its name.
C31_CacheCurrent ==
  LET cache == toolRegistry.filteredCache
  IN /\ RegistrationChange => cache = <<>>
     /\ (called = "filterTools" /\ CallsLogged(DOMAIN filterLog) = 1) =>
          /\ before.filteredCache = <<>>
          /\ evaluated = Len(before.tools)
          /\ ret.value = computeFilter(before, args.config, args.options)
     /\ \A key \in DOMAIN cache : \A i \in DOMAIN cache[key] :
          /\ MapHas(toolRegistry.tools, cache[key][i].name)
          /\ MapGet(toolRegistry.tools, cache[key][i].name).tool = cache[key][i]

\* a name is registered again, with another definition, while a cached list
\* holds its earlier definition
C31_Witness ==
  /\ called = "registerTool"
  /\ toolRegistry.filteredCache = <<>>
  /\ \E key \in DOMAIN before.filteredCache :
       \E i \in DOMAIN before.filteredCache[key] :
         /\ before.filteredCache[key][i].name = args.tool.name
         /\ before.filteredCache[key][i] # args.tool

\* C32: a filterTools call leaves the tool map alone, keeps every cache entry
\* with its list, adds no entry on a hit (the registry is unchanged) and on a
\* miss adds one entry, the returned tools under the derived key.
C32_AppendOnly ==
  called = "filterTools" =>
    LET key == createFilterCacheKey(args.config, args.options)
        old == before.filteredCache
        new == toolRegistry.filteredCache
    IN /\ toolRegistry.tools = before.tools
       /\ DOMAIN old \subseteq DOMAIN new
       /\ \A k \in DOMAIN old : k \in DOMAIN new /\ new[k] = old[k]
       /\ DOMAIN new \subseteq (DOMAIN old) \cup {key}
       /\ key \in DOMAIN old => toolRegistry = before
       /\ key \notin DOMAIN old => (key \in DOMAIN new /\ new[key] = ret.value.tools)

\* a miss on a cache that already holds an entry
C32_Witness ==
  /\ called = "filterTools"
  /\ before.filteredCache # <<>>
  /\ createFilterCacheKey(args.config, args.options) \notin DOMAIN before.filteredCache
  /\ Cardinality(DOMAIN toolRegistry.filteredCache) >= 2

(***************************************************************************)
(* The order of the registered tools                                       *)
(***************************************************************************)
\* the registered names, in the order of the tool map
NamesOf(registry) == [i \in DOMAIN registry.tools |-> registry.tools[i][1]]

\* sub is made of elements of full, in the order they have in full
RECURSIVE IsSubSeq(_, _)
IsSubSeq(sub, full) ==
  IF sub = <<>> THEN TRUE
  ELSE IF full = <<>> THEN FALSE
  ELSE IF Head(sub) = Head(full) THEN IsSubSeq(Tail(sub), Tail(full))
  ELSE IsSubSeq(sub, Tail(full))

\* C35: the tool map keeps the names in the order of their first registration
\* since the last clearRegistry (a registration of a present name keeps its
\* place), getAllTools lists the tools in that order, and the tools of
\* filterTools follow it whatever the order of the names in availableTools
\* or in options.include.
C35_RegistrationOrder ==
  LET old == NamesOf(before)
      new == NamesOf(toolRegistry)
  IN /\ called = "registerTool" =>
          /\ new = Distinct(Append(old, args.tool.name))
          /\ MapGet(toolRegistry.tools, args.tool.name).tool = args.tool
     /\ called = "registerTools" =>
          new = Distinct(old \o [i \in DOMAIN args.tools |-> args.tools[i].name])
     /\ called = "clearRegistry" => new = <<>>
     /\ called \notin {"none", "registerTool", "registerTools", "clearRegistry"} =>
          new = old
     /\ called = "getAllTools" =>
          ret.value = [i \in DOMAIN before.tools |-> before.tools[i][2].tool]
     /\ called = "filterTools" =>
          IsSubSeq(ret.value.tools,
                   [i \in DOMAIN before.tools |-> before.tools[i][2].tool])

\* a, in its second definition, is registered ahead of b, and a request for
\* b and a, in this order, gets a before b
C35_Witness ==
  /\ called = "filterTools"
  /\ Get(args.config, K_availableTools) = Arr(<<Str(Name_b), Str(Name_a)>>)
  /\ Len(ret.value.tools) = 2
  /\ ret.value.tools[1] = ToolA2
  /\ ret.value.tools[2].name = Name_b

(***************************************************************************)
(* Conditions                                                              *)
(***************************************************************************)
\* C34: evaluateCondition returns, and its value is: for a 'config'
\* condition, false without a field name, else the function value applied to
\* the named field, else the strict equality of the named field (undefined
\* when absent) with the value; true for 'environment'; for 'custom', the
\* validator applied to the configuration, true without one; false for any
\* other type.
C34_Conditions ==
  called = "evaluateCondition" =>
    LET config  == resolveConfig(headers, env).value.resolved
        named   == IF input.field.v \in DOMAIN config
                   THEN config[input.field.v] ELSE Undefined
        isTrue  == named = Bool(TRUE)
        debugOn == K_debug \in DOMAIN config /\ Truthy(config[K_debug])
        met ==
          CASE input.type = "config" ->
                 IF input.field = Undefined \/ input.field = Str(<<>>) THEN FALSE
                 ELSE IF input.value = Fn("isTrue") THEN isTrue
                 ELSE /\ named = input.value
                      /\ input.value.t \in {"undefined", "null", "boolean",
                                            "number", "string"}
            [] input.type = "environment" -> TRUE
            [] input.type = "custom" ->
                 IF input.validator = Undefined THEN TRUE ELSE debugOn
            [] OTHER -> FALSE
    IN /\ ~ret.threw
       /\ ret.value = Bool(met)

\* a 'config' condition that names no field, with a value that the
\* configuration does hold, is not met
C34_Witness ==
  /\ called = "evaluateCondition"
  /\ input.type = "config"
  /\ input.field = Undefined
  /\ input.value = Bool(TRUE)
  /\ HasHeader(K_debug)
  /\ ret = Returned(Bool(FALSE))

(***************************************************************************)
(* The reason of an exclusion                                              *)
(***************************************************************************)
\* the first check that fails for a registration, in the order of the checks;
\* Included when none fails
FirstFailing(registration, config, options) ==
  LET tool       == registration.tool
      name       == Str(tool.name)
      category   == MetaField(tool, "category")
      tags       == MetaField(tool, "tags")
      conditions == IF IsArray(registration.conditions)
                    THEN registration.conditions.v ELSE <<>>
      unmet      == { j \in DOMAIN conditions : ~evaluateCondition(conditions[j], config) }
  IN IF registration.enabledByDefault # Bool(TRUE)
       THEN Reason("Tool is disabled by default", "")
     ELSE IF options.include # Undefined /\ name \notin Elements(options.include)
       THEN Reason("Not in include list", "")
     ELSE IF name \in Elements(options.exclude)
       THEN Reason("In exclude list", "")
     ELSE IF options.categories # Undefined
             /\ (category = Undefined \/ category \notin Elements(options.categories))
       THEN Reason("Category not in allowed list", "")
     ELSE IF ~(Elements(options.requiredTags) \subseteq Elements(tags))
       THEN Reason("Missing required tags", "")
     ELSE IF MetaField(tool, "requiresAuth") = Bool(TRUE)
             /\ options.includeAuthRequired = Bool(FALSE)
       THEN Reason("Tool requires authentication but auth tools are excluded", "")
     ELSE IF unmet # {}
       THEN Reason("Condition not met: ",
                   conditions[CHOOSE j \in unmet : \A k \in unmet : j <= k].type)
     ELSE IF Requested(config) # {} /\ name \notin Requested(config)
       THEN Reason("Not in requested tools list", "")
     ELSE Included

\* C33: on a cache miss a registered tool has no exclusion entry when it
\* passes every check, and otherwise exactly one, with the reason of the
\* first check it fails in the order: disabled, include list, exclude list,
\* category, required tags, authentication, conditions in registration order,
\* requested tools list.
C33_FirstReason ==
  ColdFilter =>
    LET regs == before.tools
        out  == ret.value.excluded
    IN /\ \A i \in DOMAIN regs :
            LET why     == FirstFailing(regs[i][2], args.config, args.options)
                entries == { k \in DOMAIN out : out[k].tool = regs[i][1] }
            IN IF why = Included THEN entries = {}
               ELSE /\ Cardinality(entries) = 1
                    /\ \A k \in entries : out[k].reason = why
       /\ \A k \in DOMAIN out : MapHas(regs, out[k].tool)

\* b is left out by the include list and named by the exclude list, and a,
\* disabled, would fail other checks too
C33_Witness ==
  /\ ColdFilter
  /\ args.options.include = Arr(<<Str(Name_a)>>)
  /\ args.options.exclude = Arr(<<Str(Name_b)>>)
  /\ \E k \in DOMAIN ret.value.excluded :
       ret.value.excluded[k] =
         [tool |-> Name_b, reason |-> Reason("Not in include list", "")]
  /\ \E k \in DOMAIN ret.value.excluded :
       ret.value.excluded[k] =
         [tool |-> Name_a, reason |-> Reason("Tool is disabled by default", "")]

(***************************************************************************)
(* The empty tool-list variable                                            *)
(***************************************************************************)
\* C36: with no to-use header, a variable DEFAULT_TOOLS that holds the empty
\* string resolves to the empty availableTools list.
C36_EmptyDefaultTools ==
  (/\ IsResolved /\ ~HasHeader(K_to_use)
   /\ HasEnvString(K_DEFAULT_TOOLS) /\ EnvValue(K_DEFAULT_TOOLS) = <<>>) =>
     Resolved[K_availableTools] = Arr(<<>>)

(***************************************************************************)
(* Resolutions over a session                                              *)
(***************************************************************************)
\* C37: a resolveConfig call returns what the first call with the same
\* headers and environment returned (resolved map, sources and validation),
\* whatever resolutions, registrations and filter calls came in between, and
\* it leaves the tool map, the filter cache and the defaults as they were.
C37_Stateless ==
  called = "resolveConfig" =>
    LET first == input[<<args.headers, args.env>>].first
    IN /\ ret.threw = first.threw
       /\ ~ret.threw =>
            /\ ret.value.resolved = first.value.resolved
            /\ ret.value.sources = first.value.sources
            /\ ret.value.validation = first.value.validation
       /\ ret = resolveConfig(args.headers, args.env)
       /\ toolRegistry = before
       /\ moduleDefaults = defaultConfig

\* the resolution of a request is repeated after a registration
C37_Witness ==
  /\ called = "resolveConfig"
  /\ ~ret.threw
  /\ input[<<args.headers, args.env>>].count >= 2
  /\ toolRegistry.tools # <<>>

(***************************************************************************)
(* The REST client                                                         *)
(***************************************************************************)
\* the configuration a request resolves to, as the constructor receives it
ResolvedOfRequest == resolveConfig(headers, env).value.resolved

\* C38: once the constructor of RestApiClient has run it has not raised, the
\* client holds its configuration, and the default headers carry
\* Authorization "Bearer <token>" when the resolved configuration has an
\* apiToken and X-API-Key when it has an apiKey.
C38_Constructed ==
  called = "constructor" =>
    /\ ~ret.threw
    /\ client.pc = "ready"
    /\ IF client.pc = "ready"
       THEN /\ Truthy(Get(ResolvedOfRequest, K_apiToken)) =>
                 Get(client.config.headers, K_Authorization)
                   = <<"B","e","a","r","e","r"," ">>
                       \o ToText(Get(ResolvedOfRequest, K_apiToken))
            /\ Truthy(Get(ResolvedOfRequest, K_apiKey)) =>
                 Get(client.config.headers, K_X_API_Key)
                   = ToText(Get(ResolvedOfRequest, K_apiKey))
       ELSE FALSE

\* a number value that is an integer and not negative
IsCount(x) == x.t = "number" /\ x.v[1] >= 0 /\ x.v[3] = <<>>

\* the outcomes of the attempts made so far are all failures but the last
FailedBefore(outcomes) ==
  \A i \in 1..(Len(outcomes) - 1) : outcomes[i] # "ok"

\* where a request stands against its effective retry count
RetryLoop ==
  client.pc \in {"fetch", "backoff", "returned", "thrown"} =>
    LET request == client.request
        n == Len(request.outcomes)
        r == request.retries
    IN /\ r = IntOf(OptionOr(input.retries, client.config.retries))
       /\ n <= r + 1
       /\ FailedBefore(request.outcomes)
       /\ client.pc = "fetch" =>
            /\ n = request.attempt
            /\ request.waits = [a \in 1..n |-> Pow(2, a - 1) * 1000]
       /\ client.pc = "backoff" =>
            /\ n <= r
            /\ request.outcomes[n] # "ok"
            /\ request.waits = [a \in 1..(n - 1) |-> Pow(2, a - 1) * 1000]
       /\ client.pc = "returned" =>
            /\ request.outcomes[n] = "ok"
            /\ ret = Returned([status |-> "ok", attempt |-> n - 1])
            /\ request.waits = [a \in 1..(n - 1) |-> Pow(2, a - 1) * 1000]
       /\ client.pc = "thrown" =>
            /\ n = r + 1
            /\ request.outcomes[n] # "ok"
            /\ ret = Thrown([error |-> request.outcomes[n], attempt |-> n - 1])
            /\ request.waits = [a \in 1..r |-> Pow(2, a - 1) * 1000]

\* C39: a request with effective retry count r makes at most r + 1 attempts,
\* returns the response of the first attempt that comes back ok, raises the
\* error of the last attempt when all r + 1 fail, has waited 2^a seconds
\* after each failed attempt a but the last one, and always comes to an end.
C39_Retries ==
  /\ []RetryLoop
  /\ (client.pc \in {"fetch", "backoff"}) ~> (client.pc \in {"returned", "thrown"})

\* every attempt of a request with two retries has failed, after waits of one
\* and two seconds
C39_Witness ==
  /\ client.pc = "thrown"
  /\ client.request.retries = MaxRetries
  /\ Len(client.request.outcomes) = MaxRetries + 1
  /\ Len(client.request.waits) = MaxRetries
  /\ ret.threw

\* C40: under the default mapping, a retry count N >= 0 of the resolved
\* configuration is the retry count of the client (so that a request which
\* does not override it is attempted N + 1 times when all attempts fail), and
\* a timeout T >= 0 of the resolved configuration is the timeout of the client.
C40_ConfiguredCounts ==
  (client.pc = "buildHeaders" /\ input = <<>>) =>
    /\ IsCount(Get(ResolvedOfRequest, K_retries)) =>
         client.fields.retries = Get(ResolvedOfRequest, K_retries)
    /\ IsCount(Get(ResolvedOfRequest, K_timeout)) =>
         client.fields.timeout = Get(ResolvedOfRequest, K_timeout)

====
